---- MODULE Spec2Model ----
(***************************************************************************)
(* A model of the IOC mediator of hw/platform/ioc.c: the channel table,    *)
(* the request pool with its free/rx/tx queues, the core thread, the rx    *)
(* and tx workers, ioc_init / ioc_deinit and the signal whitelists.        *)
(*                                                                         *)
(* Threads are modelled at the granularity of their accesses to shared     *)
(* state: one action per critical section or per private computation       *)
(* between two critical sections.  The CBC codec (ioc_cbc.c) is not part   *)
(* of ioc.c; the few codec operations the model needs follow the codec's   *)
(* published contract and are marked as such.                              *)
(***************************************************************************)
EXTENDS Integers, Sequences, FiniteSets, TLC

(***************************************************************************)
(* Bounds of the model.                                                    *)
(***************************************************************************)
\* Size of the request pool (IOC_MAX_REQUESTS of ioc.h, scaled down).
IOC_MAX_REQUESTS == 2
\* Service frames that arrive on the native lifecycle channel.
MaxNative == 1
\* Link frames that arrive on the virtual UART.
MaxFrames == 2
\* Times a handler may forward one request to the opposite queue.
MaxHops == 1

(***************************************************************************)
(* Program constants.                                                      *)
(***************************************************************************)
IOC_INIT_FD == -1
CBC_QUEUE_T_FREE == "free"
CBC_QUEUE_T_RX == "rx"
CBC_QUEUE_T_TX == "tx"
CBC_REQ_T_PROT == "CBC_REQ_T_PROT"
IOC_CH_ON == "IOC_CH_ON"
IOC_CH_OFF == "IOC_CH_OFF"

\* The channel table, in the order of the source: <<id, stat>>.
ioc_ch_tbl ==
  << <<"IOC_NATIVE_PMT", IOC_CH_OFF>>,   <<"IOC_NATIVE_LFCC", IOC_CH_ON>>,
     <<"IOC_NATIVE_SIGNAL", IOC_CH_ON>>, <<"IOC_NATIVE_ESIG", IOC_CH_OFF>>,
     <<"IOC_NATIVE_DIAG", IOC_CH_OFF>>,  <<"IOC_NATIVE_DLT", IOC_CH_OFF>>,
     <<"IOC_NATIVE_LINDA", IOC_CH_OFF>>, <<"IOC_NATIVE_RAW0", IOC_CH_ON>>,
     <<"IOC_NATIVE_RAW1", IOC_CH_ON>>,   <<"IOC_NATIVE_RAW2", IOC_CH_ON>>,
     <<"IOC_NATIVE_RAW3", IOC_CH_ON>>,   <<"IOC_NATIVE_RAW4", IOC_CH_ON>>,
     <<"IOC_NATIVE_RAW5", IOC_CH_ON>>,   <<"IOC_NATIVE_RAW6", IOC_CH_ON>>,
     <<"IOC_NATIVE_RAW7", IOC_CH_ON>>,   <<"IOC_NATIVE_RAW8", IOC_CH_ON>>,
     <<"IOC_NATIVE_RAW9", IOC_CH_ON>>,   <<"IOC_NATIVE_RAW10", IOC_CH_ON>>,
     <<"IOC_NATIVE_RAW11", IOC_CH_ON>>,  <<"IOC_VIRTUAL_UART", IOC_CH_ON>> >>

ChIdx == 1..Len(ioc_ch_tbl)
ChId(i) == ioc_ch_tbl[i][1]
ChStat(i) == ioc_ch_tbl[i][2]
ChIds == {ChId(i) : i \in ChIdx}
IOC_NATIVE_LFCC == "IOC_NATIVE_LFCC"
IOC_VIRTUAL_UART == "IOC_VIRTUAL_UART"

\* The channels ioc_ch_init and ioc_dispatch treat as native CBC cdevs.
NativeChs ==
  {"IOC_NATIVE_LFCC", "IOC_NATIVE_SIGNAL"} \cup
  {"IOC_NATIVE_RAW0", "IOC_NATIVE_RAW1", "IOC_NATIVE_RAW2", "IOC_NATIVE_RAW3",
   "IOC_NATIVE_RAW4", "IOC_NATIVE_RAW5", "IOC_NATIVE_RAW6", "IOC_NATIVE_RAW7",
   "IOC_NATIVE_RAW8", "IOC_NATIVE_RAW9", "IOC_NATIVE_RAW10", "IOC_NATIVE_RAW11"}

Reqs == 1..IOC_MAX_REQUESTS
NoReq == 0
Workers == {"rx", "tx"}
Threads == {"core"} \cup Workers
Opposite(w) == IF w = "rx" THEN "tx" ELSE "rx"

VARIABLES
  qhead,     \* the three queue heads: [free, rx, tx] -> sequence of requests
  pool,      \* the request pool: request -> its buffer and metadata
  mtx,       \* free_mtx, rx_mtx, tx_mtx: the thread holding each, or "none"
  woken,     \* rx_cond, tx_cond: a signal has reached the waiting worker
  closing,   \* ioc->closing
  epfd,      \* ioc->epfd
  fd,        \* ioc_ch_tbl[].fd
  ring,      \* ioc->ring
  core,      \* the core thread: position and locals
  wk,        \* the rx and tx workers: position, req and packet.qtype
  kpc,       \* the thread that runs ioc_deinit / ioc_kill_workers
  chan_in,   \* bytes / frames pending in the kernel for each channel
  sent,      \* what the peers have written so far, per channel
  obs,       \* history of the run: drops, returns to the free queue
  ini,       \* the thread that runs ioc_init: position, locals, what it created
  wl,        \* the whitelist filter of one direction at work on one frame
  io         \* one call of ioc_ch_recv or ioc_ch_xmit: arguments, position, effects

vars == <<qhead, pool, mtx, woken, closing, epfd, fd, ring, core, wk, kpc,
          chan_in, sent, obs, ini, wl, io>>

(***************************************************************************)
(* The CBC link layer as far as the mediator core depends on it (codec     *)
(* contract): a link frame is a start-of-frame byte followed by the        *)
(* service payload; the service payload starts at CBC_SRV_POS.             *)
(***************************************************************************)
CBC_RING_BUFFER_SIZE == 4
CBC_SOF_VALUE == 5
CBC_SRV_POS == 1
CBC_MAX_SERVICE_SIZE == 1
CBC_MAX_LINK_SIZE == CBC_SRV_POS + CBC_MAX_SERVICE_SIZE

\* Reads that fail, or return 0 bytes, over a run.
MaxFaults == 1

\* Payloads are sequence numbers: the largest one any peer sends.
Max(a, b) == IF a > b THEN a ELSE b
Payloads == 1..Max(Max(MaxFrames, MaxNative), IOC_MAX_REQUESTS + 1)
Bytes == {0, CBC_SOF_VALUE} \cup Payloads
\* The values the model gives a byte that was never written: one that does not
\* start a link frame and one that does.
UninitBytes == {0, CBC_SOF_VALUE}

\* The channels that carry traffic in the model.
TrafficChs == {IOC_NATIVE_LFCC, IOC_VIRTUAL_UART}

\* The descriptor epoll_create1 returns, and the one open returns for channel i.
RunEpfd == 3
RunFd(i) == RunEpfd + i

\* A request as calloc leaves it; org and hops are history fields (where the
\* data in the request came from, and how often it was forwarded).
ZeroReq ==
  [buf |-> [i \in 0..(CBC_MAX_LINK_SIZE - 1) |-> 0], srv_len |-> 0, link_len |-> 0,
   rtype |-> "ZERO", id |-> "ZERO", org |-> <<"none", 0>>, hops |-> 0]

free_qhead == qhead[CBC_QUEUE_T_FREE]
rx_qhead == qhead[CBC_QUEUE_T_RX]
tx_qhead == qhead[CBC_QUEUE_T_TX]

(***************************************************************************)
(* Queue primitives.                                                       *)
(***************************************************************************)
\* Faulty variants of the queue primitives, used to check that the properties
\* below depend on the primitives: a removal that leaves the head in place, a
\* tail insertion that inserts at the head.
RemoveHeadKeepsHead(q) == q
InsertTailAtHead(q, r) == <<r>> \o q

SIMPLEQ_INSERT_HEAD(q, r) == <<r>> \o q
SIMPLEQ_INSERT_TAIL(q, r) == Append(q, r)
SIMPLEQ_FIRST(q) == Head(q)
SIMPLEQ_REMOVE_HEAD(q) == Tail(q)
SIMPLEQ_EMPTY(q) == q = <<>>

\* Faulty variant: the enqueue does not signal.
CondSignalLost(qtype) == woken

\* pthread_cond_signal on the queue's condition variable: wakes the worker if it
\* is blocked in pthread_cond_wait, and is lost otherwise. The free queue has none.
CondSignal(qtype) ==
  IF qtype \in Workers /\ wk[qtype].pc = "wait"
  THEN [woken EXCEPT ![qtype] = TRUE]
  ELSE woken

\* cbc_request_enqueue: lock the queue's mutex, insert at head or tail, signal the
\* queue's condition variable, unlock. One critical section, hence one step.
cbc_request_enqueue(r, qtype, to_head) ==
  /\ r # NoReq
  /\ mtx[qtype] = "none"
  /\ qhead' = [qhead EXCEPT ![qtype] =
                 IF to_head THEN SIMPLEQ_INSERT_HEAD(@, r)
                 ELSE SIMPLEQ_INSERT_TAIL(@, r)]
  /\ woken' = CondSignal(qtype)
  /\ UNCHANGED mtx

\* cbc_request_dequeue(ioc, CBC_QUEUE_T_FREE): the request it returns (NoReq for
\* NULL) and the free queue it leaves.
\* Faulty variant: the dequeue returns the head and leaves it on the queue.
DequeueLeavesHead == free_qhead
DequeueResult == IF SIMPLEQ_EMPTY(free_qhead) THEN NoReq ELSE SIMPLEQ_FIRST(free_qhead)
DequeueRest ==
  IF SIMPLEQ_EMPTY(free_qhead) THEN free_qhead ELSE SIMPLEQ_REMOVE_HEAD(free_qhead)
cbc_request_dequeue ==
  /\ mtx[CBC_QUEUE_T_FREE] = "none"
  /\ qhead' = [qhead EXCEPT ![CBC_QUEUE_T_FREE] = DequeueRest]
  /\ UNCHANGED mtx

(***************************************************************************)
(* The signal tables and signal whitelists of the two directions, and the  *)
(* whitelist filter. The tables and their wiring are those of ioc.c; the   *)
(* filter itself (wlist_init_signal and the handlers' lookup) is part of   *)
(* the CBC codec and follows its published contract.                       *)
(***************************************************************************)
CBC_ACTIVE == "CBC_ACTIVE"
CBC_INACTIVE == "CBC_INACTIVE"

\* <<id, bit width, flag>>, in the order of the source.
cbc_tx_signal_table ==
  <<
     <<"CBC_SIG_ID_VSWA", 16, CBC_ACTIVE>>, <<"CBC_SIG_ID_VSPD", 16, CBC_ACTIVE>>,
     <<"CBC_SIG_ID_VESP", 16, CBC_ACTIVE>>, <<"CBC_SIG_ID_VECT", 8, CBC_ACTIVE>>,
     <<"CBC_SIG_ID_VRGR", 2, CBC_ACTIVE>>, <<"CBC_SIG_ID_VPS", 3, CBC_ACTIVE>>,
     <<"CBC_SIG_ID_VPM", 3, CBC_ACTIVE>>, <<"CBC_SIG_ID_VMD", 3, CBC_ACTIVE>>,
     <<"CBC_SIG_ID_VIS", 2, CBC_ACTIVE>>, <<"CBC_SIG_ID_VGP", 4, CBC_ACTIVE>>,
     <<"CBC_SIG_ID_VAG", 4, CBC_ACTIVE>>, <<"CBC_SIG_ID_VFS", 2, CBC_ACTIVE>>,
     <<"CBC_SIG_ID_VFL", 8, CBC_ACTIVE>>, <<"CBC_SIG_ID_VDTE", 16, CBC_ACTIVE>>,
     <<"CBC_SIG_ID_SWUB", 3, CBC_ACTIVE>>, <<"CBC_SIG_ID_SWRB", 3, CBC_ACTIVE>>,
     <<"CBC_SIG_ID_SWPB", 3, CBC_ACTIVE>>, <<"CBC_SIG_ID_SWNB", 3, CBC_ACTIVE>>,
     <<"CBC_SIG_ID_SWLB", 3, CBC_ACTIVE>>, <<"CBC_SIG_ID_SWLB", 3, CBC_ACTIVE>>,
     <<"CBC_SIG_ID_SWDB", 8, CBC_ACTIVE>>, <<"CBC_SIG_ID_SWVA", 3, CBC_ACTIVE>>,
     <<"CBC_SIG_ID_SWSCB", 3, CBC_ACTIVE>>, <<"CBC_SIG_ID_SWPLB", 3, CBC_ACTIVE>>,
     <<"CBC_SIG_ID_SWPCB", 3, CBC_ACTIVE>>, <<"CBC_SIG_ID_SWHB", 3, CBC_ACTIVE>>,
     <<"CBC_SIG_ID_SWEB", 3, CBC_ACTIVE>>, <<"CBC_SIG_ID_SWECB", 3, CBC_ACTIVE>>,
     <<"CBC_SIG_ID_SWCB", 3, CBC_ACTIVE>>, <<"CBC_SIG_ID_SWCLB", 3, CBC_ACTIVE>>,
     <<"CBC_SIG_ID_SWAMB", 3, CBC_ACTIVE>>, <<"CBC_SIG_ID_RRSUB", 3, CBC_ACTIVE>>,
     <<"CBC_SIG_ID_RRSRB", 3, CBC_ACTIVE>>, <<"CBC_SIG_ID_RRSPB", 3, CBC_ACTIVE>>,
     <<"CBC_SIG_ID_RRSP9B", 3, CBC_ACTIVE>>, <<"CBC_SIG_ID_RRSP8B", 3, CBC_ACTIVE>>,
     <<"CBC_SIG_ID_RRSP7B", 3, CBC_ACTIVE>>, <<"CBC_SIG_ID_RRSP6B", 3, CBC_ACTIVE>>,
     <<"CBC_SIG_ID_RRSP5B", 3, CBC_ACTIVE>>, <<"CBC_SIG_ID_RRSP4B", 3, CBC_ACTIVE>>,
     <<"CBC_SIG_ID_RRSP3B", 3, CBC_ACTIVE>>, <<"CBC_SIG_ID_RRSP2B", 3, CBC_ACTIVE>>,
     <<"CBC_SIG_ID_RRSP1B", 3, CBC_ACTIVE>>, <<"CBC_SIG_ID_RRSP0B", 3, CBC_ACTIVE>>,
     <<"CBC_SIG_ID_RRSNB", 3, CBC_ACTIVE>>, <<"CBC_SIG_ID_RRSLB", 3, CBC_ACTIVE>>,
     <<"CBC_SIG_ID_RRSDB", 3, CBC_ACTIVE>>, <<"CBC_SIG_ID_RRSVA", 8, CBC_ACTIVE>>,
     <<"CBC_SIG_ID_RSSSB", 3, CBC_ACTIVE>>, <<"CBC_SIG_ID_RRSSCB", 3, CBC_ACTIVE>>,
     <<"CBC_SIG_ID_RRSSB", 3, CBC_ACTIVE>>, <<"CBC_SIG_ID_RRSRDB", 3, CBC_ACTIVE>>,
     <<"CBC_SIG_ID_RRSPLB", 3, CBC_ACTIVE>>, <<"CBC_SIG_ID_RRSPSB", 3, CBC_ACTIVE>>,
     <<"CBC_SIG_ID_RRSOMB", 3, CBC_ACTIVE>>, <<"CBC_SIG_ID_RRSHB", 3, CBC_ACTIVE>>,
     <<"CBC_SIG_ID_RRSHDB", 3, CBC_ACTIVE>>, <<"CBC_SIG_ID_RRSENB", 3, CBC_ACTIVE>>,
     <<"CBC_SIG_ID_RRSEJB", 3, CBC_ACTIVE>>, <<"CBC_SIG_ID_RRSCB", 3, CBC_ACTIVE>>,
     <<"CBC_SIG_ID_RRSCLB", 3, CBC_ACTIVE>>, <<"CBC_SIG_ID_RRSAMB", 3, CBC_ACTIVE>>,
     <<"CBC_SIG_ID_RVCS", 2, CBC_ACTIVE>>, <<"CBC_SIG_ID_PSS", 2, CBC_ACTIVE>>,
     <<"CBC_SIG_ID_PUB", 3, CBC_ACTIVE>>, <<"CBC_SIG_ID_PRB", 3, CBC_ACTIVE>>,
     <<"CBC_SIG_ID_PPB", 3, CBC_ACTIVE>>, <<"CBC_SIG_ID_PP9B", 3, CBC_ACTIVE>>,
     <<"CBC_SIG_ID_PP8B", 3, CBC_ACTIVE>>, <<"CBC_SIG_ID_PP7B", 3, CBC_ACTIVE>>,
     <<"CBC_SIG_ID_PP6B", 3, CBC_ACTIVE>>, <<"CBC_SIG_ID_PP5B", 3, CBC_ACTIVE>>,
     <<"CBC_SIG_ID_PP4B", 3, CBC_ACTIVE>>, <<"CBC_SIG_ID_PP3B", 3, CBC_ACTIVE>>,
     <<"CBC_SIG_ID_PP2B", 3, CBC_ACTIVE>>, <<"CBC_SIG_ID_PP1B", 3, CBC_ACTIVE>>,
     <<"CBC_SIG_ID_PP0B", 3, CBC_ACTIVE>>, <<"CBC_SIG_ID_PNB", 3, CBC_ACTIVE>>,
     <<"CBC_SIG_ID_PLB", 3, CBC_ACTIVE>>, <<"CBC_SIG_ID_PDB", 3, CBC_ACTIVE>>,
     <<"CBC_SIG_ID_PVA", 8, CBC_ACTIVE>>, <<"CBC_SIG_ID_PSB", 3, CBC_ACTIVE>>,
     <<"CBC_SIG_ID_PSCB", 3, CBC_ACTIVE>>, <<"CBC_SIG_ID_PSRB", 3, CBC_ACTIVE>>,
     <<"CBC_SIG_ID_PRDB", 3, CBC_ACTIVE>>, <<"CBC_SIG_ID_PPLB", 3, CBC_ACTIVE>>,
     <<"CBC_SIG_ID_PPSB", 3, CBC_ACTIVE>>, <<"CBC_SIG_ID_POMB", 3, CBC_ACTIVE>>,
     <<"CBC_SIG_ID_PHMB", 3, CBC_ACTIVE>>, <<"CBC_SIG_ID_PHDB", 3, CBC_ACTIVE>>,
     <<"CBC_SIG_ID_PENB", 3, CBC_ACTIVE>>, <<"CBC_SIG_ID_PEJB", 3, CBC_ACTIVE>>,
     <<"CBC_SIG_ID_PCFB", 3, CBC_ACTIVE>>, <<"CBC_SIG_ID_PCLB", 3, CBC_ACTIVE>>,
     <<"CBC_SIG_ID_PAMB", 3, CBC_ACTIVE>>, <<"CBC_SIG_ID_LRSUB", 3, CBC_ACTIVE>>,
     <<"CBC_SIG_ID_LRSRB", 3, CBC_ACTIVE>>, <<"CBC_SIG_ID_LRSPB", 3, CBC_ACTIVE>>,
     <<"CBC_SIG_ID_LRSP9B", 3, CBC_ACTIVE>>, <<"CBC_SIG_ID_LRSP8B", 3, CBC_ACTIVE>>,
     <<"CBC_SIG_ID_LRSP7B", 3, CBC_ACTIVE>>, <<"CBC_SIG_ID_LRSP6B", 3, CBC_ACTIVE>>,
     <<"CBC_SIG_ID_LRSP5B", 3, CBC_ACTIVE>>, <<"CBC_SIG_ID_LRSP4B", 3, CBC_ACTIVE>>,
     <<"CBC_SIG_ID_LRSP3B", 3, CBC_ACTIVE>>, <<"CBC_SIG_ID_LRSP2B", 3, CBC_ACTIVE>>,
     <<"CBC_SIG_ID_LRSP1B", 3, CBC_ACTIVE>>, <<"CBC_SIG_ID_LRSP0B", 3, CBC_ACTIVE>>,
     <<"CBC_SIG_ID_LRSNB", 3, CBC_ACTIVE>>, <<"CBC_SIG_ID_LRSLB", 3, CBC_ACTIVE>>,
     <<"CBC_SIG_ID_LRSDB", 3, CBC_ACTIVE>>, <<"CBC_SIG_ID_LRSVA", 8, CBC_ACTIVE>>,
     <<"CBC_SIG_ID_LRSAMB", 3, CBC_ACTIVE>>, <<"CBC_SIG_ID_LRSSB", 3, CBC_ACTIVE>>,
     <<"CBC_SIG_ID_LRSSCB", 3, CBC_ACTIVE>>, <<"CBC_SIG_ID_LRSSRB", 3, CBC_ACTIVE>>,
     <<"CBC_SIG_ID_LRSRDB", 3, CBC_ACTIVE>>, <<"CBC_SIG_ID_LRSPLB", 3, CBC_ACTIVE>>,
     <<"CBC_SIG_ID_LRSPSB", 3, CBC_ACTIVE>>, <<"CBC_SIG_ID_LRSOMB", 3, CBC_ACTIVE>>,
     <<"CBC_SIG_ID_LRSHMB", 3, CBC_ACTIVE>>, <<"CBC_SIG_ID_LRSHDB", 3, CBC_ACTIVE>>,
     <<"CBC_SIG_ID_LRSENB", 3, CBC_ACTIVE>>, <<"CBC_SIG_ID_LRSEJB", 3, CBC_ACTIVE>>,
     <<"CBC_SIG_ID_LRSCFB", 3, CBC_ACTIVE>>, <<"CBC_SIG_ID_LRSCLB", 3, CBC_ACTIVE>>,
     <<"CBC_SIG_ID_DVA", 8, CBC_ACTIVE>>, <<"CBC_SIG_ID_DECSP", 8, CBC_ACTIVE>>,
     <<"CBC_SIG_ID_DECST", 2, CBC_ACTIVE>>, <<"CBC_SIG_ID_DAMB", 3, CBC_ACTIVE>>,
     <<"CBC_SIG_ID_DNB", 3, CBC_ACTIVE>>, <<"CBC_SIG_ID_DLB", 3, CBC_ACTIVE>>,
     <<"CBC_SIG_ID_DDB", 3, CBC_ACTIVE>>, <<"CBC_SIG_ID_DUB", 3, CBC_ACTIVE>>,
     <<"CBC_SIG_ID_DRB", 3, CBC_ACTIVE>>, <<"CBC_SIG_ID_DPB", 3, CBC_ACTIVE>>,
     <<"CBC_SIG_ID_DP9B", 3, CBC_ACTIVE>>, <<"CBC_SIG_ID_DP8B", 3, CBC_ACTIVE>>,
     <<"CBC_SIG_ID_DP7B", 3, CBC_ACTIVE>>, <<"CBC_SIG_ID_DP6B", 3, CBC_ACTIVE>>,
     <<"CBC_SIG_ID_DP5B", 3, CBC_ACTIVE>>, <<"CBC_SIG_ID_DP4B", 3, CBC_ACTIVE>>,
     <<"CBC_SIG_ID_DP3B", 3, CBC_ACTIVE>>, <<"CBC_SIG_ID_DP2B", 3, CBC_ACTIVE>>,
     <<"CBC_SIG_ID_DP1B", 3, CBC_ACTIVE>>, <<"CBC_SIG_ID_DP0B", 3, CBC_ACTIVE>>,
     <<"CBC_SIG_ID_DSCB", 3, CBC_ACTIVE>>, <<"CBC_SIG_ID_DSRB", 3, CBC_ACTIVE>>,
     <<"CBC_SIG_ID_DRDB", 3, CBC_ACTIVE>>, <<"CBC_SIG_ID_DSTB", 3, CBC_ACTIVE>>,
     <<"CBC_SIG_ID_DPLB", 3, CBC_ACTIVE>>, <<"CBC_SIG_ID_DPSB", 3, CBC_ACTIVE>>,
     <<"CBC_SIG_ID_DOMB", 3, CBC_ACTIVE>>, <<"CBC_SIG_ID_DHMB", 3, CBC_ACTIVE>>,
     <<"CBC_SIG_ID_DHHB", 3, CBC_ACTIVE>>, <<"CBC_SIG_ID_DENB", 3, CBC_ACTIVE>>,
     <<"CBC_SIG_ID_DEJB", 3, CBC_ACTIVE>>, <<"CBC_SIG_ID_DCFB", 3, CBC_ACTIVE>>,
     <<"CBC_SIG_ID_DCLB", 3, CBC_ACTIVE>>, <<"CBC_SIG_ID_DSTG", 2, CBC_ACTIVE>>,
     <<"CBC_SIG_ID_DSRR", 2, CBC_ACTIVE>>, <<"CBC_SIG_ID_DSRF", 2, CBC_ACTIVE>>,
     <<"CBC_SIG_ID_DSLR", 2, CBC_ACTIVE>>, <<"CBC_SIG_ID_DSLF", 2, CBC_ACTIVE>>,
     <<"CBC_SIG_ID_DSEH", 2, CBC_ACTIVE>>, <<"CBC_SIG_ID_CSSRRW", 2, CBC_ACTIVE>>,
     <<"CBC_SIG_ID_CSSRR", 2, CBC_ACTIVE>>, <<"CBC_SIG_ID_CSSLRW", 2, CBC_ACTIVE>>,
     <<"CBC_SIG_ID_CSSLR", 2, CBC_ACTIVE>>, <<"CBC_SIG_ID_ATEMP", 16, CBC_ACTIVE>>,
     <<"CBC_SIG_ID_ANSL", 8, CBC_ACTIVE>>, <<"CBC_SIG_ID_ALTI", 8, CBC_ACTIVE>>,
     <<"CBC_SIG_ID_VSA", 16, CBC_ACTIVE>>, <<"CBC_SIG_ID_LLAT", 32, CBC_ACTIVE>>,
     <<"CBC_SIG_ID_LLON", 32, CBC_ACTIVE>>, <<"CBC_SIG_ID_LALT", 32, CBC_ACTIVE>>,
     <<"CBC_SIG_ID_LACC", 32, CBC_ACTIVE>>, <<"CBC_SIG_ID_LHED", 32, CBC_ACTIVE>>,
     <<"CBC_SIG_ID_LSPD", 32, CBC_ACTIVE>>, <<"CBC_SIG_ID_LSRC", 3, CBC_ACTIVE>>,
     <<"CBC_SIG_ID_LSCT", 8, CBC_ACTIVE>>, <<"CBC_SIG_ID_PDFB", 8, CBC_ACTIVE>>,
     <<"CBC_SIG_ID_PDFL1", 8, CBC_ACTIVE>>, <<"CBC_SIG_ID_PDFL2", 8, CBC_ACTIVE>>,
     <<"CBC_SIG_ID_PDFL3", 8, CBC_ACTIVE>>, <<"CBC_SIG_ID_PDFR1", 8, CBC_ACTIVE>>,
     <<"CBC_SIG_ID_PDFR2", 8, CBC_ACTIVE>>, <<"CBC_SIG_ID_PDFR3", 8, CBC_ACTIVE>>,
     <<"CBC_SIG_ID_PDRC", 8, CBC_ACTIVE>>, <<"CBC_SIG_ID_PDRL1", 8, CBC_ACTIVE>>,
     <<"CBC_SIG_ID_PDRL2", 8, CBC_ACTIVE>>, <<"CBC_SIG_ID_PDRL3", 8, CBC_ACTIVE>>,
     <<"CBC_SIG_ID_PDRR1", 8, CBC_ACTIVE>>, <<"CBC_SIG_ID_PDRR2", 8, CBC_ACTIVE>>,
     <<"CBC_SIG_ID_PDRR3", 8, CBC_ACTIVE>>, <<"CBC_SIG_ID_VXA", 16, CBC_ACTIVE>>,
     <<"CBC_SIG_ID_VYA", 16, CBC_ACTIVE>>, <<"CBC_SIG_ID_VZA", 16, CBC_ACTIVE>>,
     <<"CBC_SIG_ID_MBV", 32, CBC_ACTIVE>>, <<"CBC_SIG_ID_TSA", 32, CBC_ACTIVE>>,
     <<"CBC_SIG_ID_TSE", 32, CBC_ACTIVE>>, <<"CBC_SIG_ID_IACR", 32, CBC_ACTIVE>>,
     <<"CBC_SIG_ID_IWCR", 32, CBC_ACTIVE>>, <<"CBC_SIG_ID_IFCR", 32, CBC_ACTIVE>>,
     <<"CBC_SIG_ID_GYROX", 16, CBC_ACTIVE>>, <<"CBC_SIG_ID_GYROY", 16, CBC_ACTIVE>>,
     <<"CBC_SIG_ID_IAVB", 8, CBC_ACTIVE>>, <<"CBC_SIG_ID_IAVMJ", 8, CBC_ACTIVE>>,
     <<"CBC_SIG_ID_RAV", 32, CBC_ACTIVE>>, <<"CBC_SIG_ID_RMAX", 32, CBC_ACTIVE>>,
     <<"CBC_SIG_ID_RMIN", 32, CBC_ACTIVE>>, <<"CBC_SIG_ID_ACCX", 16, CBC_ACTIVE>>,
     <<"CBC_SIG_ID_ACCY", 16, CBC_ACTIVE>>, <<"CBC_SIG_ID_ACCZ", 16, CBC_ACTIVE>>,
     <<"CBC_SIG_ID_MDS", 8, CBC_ACTIVE>>, <<"CBC_SIG_ID_FCP", 10, CBC_ACTIVE>>,
     <<"CBC_SIG_ID_GYROZ", 16, CBC_ACTIVE>>, <<"CBC_SIG_ID_IAVMN", 8, CBC_ACTIVE>>,
     <<"CBC_SIG_ID_RTST", 32, CBC_ACTIVE>>
  >>

cbc_rx_signal_table ==
  <<
     <<"CBC_SIG_ID_STFR", 32, CBC_ACTIVE>>, <<"CBC_SIG_ID_EGYO", 1, CBC_ACTIVE>>,
     <<"CBC_SIG_ID_WACS", 3, CBC_ACTIVE>>, <<"CBC_SIG_ID_RIFC", 1, CBC_ACTIVE>>,
     <<"CBC_SIG_ID_RIWC", 1, CBC_ACTIVE>>, <<"CBC_SIG_ID_RIAC", 1, CBC_ACTIVE>>,
     <<"CBC_SIG_ID_RIVS", 1, CBC_ACTIVE>>, <<"CBC_SIG_ID_RRMS", 8, CBC_ACTIVE>>,
     <<"CBC_SIG_ID_MTAM", 1, CBC_ACTIVE>>, <<"CBC_SIG_ID_VICL", 8, CBC_ACTIVE>>
  >>

wlist_rx_signal_table == <<>>

wlist_tx_signal_table ==
  <<
     "CBC_SIG_ID_ATEMP", "CBC_SIG_ID_VSPD", "CBC_SIG_ID_VESP",
     "CBC_SIG_ID_VECT", "CBC_SIG_ID_VRGR", "CBC_SIG_ID_VGP",
     "CBC_SIG_ID_VAG", "CBC_SIG_ID_VFS", "CBC_SIG_ID_ALTI"
  >>

\* The tables by the name a pointer to them is written with.
SigTableAt(p) ==
  IF p = "cbc_rx_signal_table" THEN cbc_rx_signal_table ELSE cbc_tx_signal_table
WlistAt(p) ==
  IF p = "wlist_rx_signal_table" THEN wlist_rx_signal_table ELSE wlist_tx_signal_table

\* ioc->rx_config and ioc->tx_config as ioc_init fills them.
rx_config ==
  [cbc_sig_tbl |-> "cbc_rx_signal_table", wlist_sig_tbl |-> "wlist_rx_signal_table"]
tx_config ==
  [cbc_sig_tbl |-> "cbc_tx_signal_table", wlist_sig_tbl |-> "wlist_tx_signal_table"]

\* Faulty variant: each worker is given the other direction's configuration.
PacketCfgSwapped(dir) == IF dir = "rx" THEN tx_config ELSE rx_config
\* packet.cfg of the worker of direction dir.
PacketCfg(dir) == IF dir = "rx" THEN rx_config ELSE tx_config

\* DEFAULT_WLIST_NODE: a whitelist entry not associated with a table entry.
NullNode == <<"NULL", 0>>

\* wlist_init_signal: each whitelist entry is associated with the first entry of
\* the signal table that has its id, if there is one.
wlist_init_signal(cbc_p, wlist_p) ==
  [k \in DOMAIN WlistAt(wlist_p) |->
     LET hits == {j \in DOMAIN SigTableAt(cbc_p) : SigTableAt(cbc_p)[j][1] = WlistAt(wlist_p)[k]}
     IN  IF hits = {} THEN NullNode
         ELSE <<cbc_p, CHOOSE j \in hits : \A h \in hits : j <= h>>]

\* The two wlist_init_signal calls of ioc_init.
InitWhitelists ==
  [p \in {"wlist_rx_signal_table", "wlist_tx_signal_table"} |->
     IF p = "wlist_rx_signal_table"
     THEN wlist_init_signal("cbc_rx_signal_table", "wlist_rx_signal_table")
     ELSE wlist_init_signal("cbc_tx_signal_table", "wlist_tx_signal_table")]

\* The lookup a handler makes for one signal id: the id passes when the
\* whitelist of the configuration has it, associated with an active entry.
wlist_verify_signal(cfg, node, id) ==
  \E k \in DOMAIN WlistAt(cfg.wlist_sig_tbl) :
    /\ WlistAt(cfg.wlist_sig_tbl)[k] = id
    /\ node[cfg.wlist_sig_tbl][k] # NullNode
    /\ SigTableAt(node[cfg.wlist_sig_tbl][k][1])[node[cfg.wlist_sig_tbl][k][2]][3] = CBC_ACTIVE

\* The signal ids a handler emits of those of a frame.
RECURSIVE FilterSignals(_, _, _)
FilterSignals(cfg, node, frame) ==
  IF frame = <<>> THEN <<>>
  ELSE (IF wlist_verify_signal(cfg, node, Head(frame)) THEN <<Head(frame)>> ELSE <<>>)
       \o FilterSignals(cfg, node, Tail(frame))

\* Signal ids a frame may carry: those of the two tables and one of neither.
SigIds ==
  {cbc_tx_signal_table[j][1] : j \in DOMAIN cbc_tx_signal_table} \cup
  {cbc_rx_signal_table[j][1] : j \in DOMAIN cbc_rx_signal_table} \cup
  {"CBC_SIG_ID_UNKNOWN"}

\* The ids of frames of several signals: the whitelisted ones of both
\* directions, and one of each table, one entered twice and one of neither
\* that are not whitelisted.
ProbeIds ==
  {wlist_tx_signal_table[k] : k \in DOMAIN wlist_tx_signal_table} \cup
  {wlist_rx_signal_table[k] : k \in DOMAIN wlist_rx_signal_table} \cup
  {"CBC_SIG_ID_VSWA", "CBC_SIG_ID_SWLB", "CBC_SIG_ID_STFR", "CBC_SIG_ID_UNKNOWN"}

\* Signals in one frame. A handler decides each signal of a frame by itself:
\* the frames of one signal carry every id, the longer ones the ids of ProbeIds.
MaxSigs == 2
SigFrames == [1..1 -> SigIds] \cup UNION {[1..n -> ProbeIds] : n \in 0..MaxSigs}

(***************************************************************************)
(* The state ioc_init leaves when it succeeds, before any thread has run.  *)
(***************************************************************************)
SyncObjs == {CBC_QUEUE_T_FREE, CBC_QUEUE_T_RX, CBC_QUEUE_T_TX}

\* The init thread before ioc_init is called: the platform sentinel is present
\* or not, the boot reason is as ioc_parse left it.
IniStart(supported, boot_reason) ==
  [pc |-> "start", ret |-> "none", supported |-> supported, boot_reason |-> boot_reason,
   ioc |-> "none", symlink |-> FALSE, i |-> 1, failed |-> {}, nfault |-> 0,
   sync |-> [o \in SyncObjs |-> "uninit"], ub |-> {}, ncall |-> 0]

\* The init thread after ioc_init returned the device, every open having succeeded.
IniReturned ==
  [IniStart(TRUE, 1) EXCEPT !.pc = "returned", !.ret = "ioc", !.ioc = "alloc",
                            !.symlink = TRUE, !.i = Len(ioc_ch_tbl) + 1,
                            !.sync = [o \in SyncObjs |-> "init"]]

\* No frame is being filtered.
WlIdle ==
  [pc |-> "idle", dir |-> "rx", frame |-> <<>>, out |-> <<>>, node |-> InitWhitelists]

\* The whitelists before ioc_init has initialised them.
WlStart(dir, frame) ==
  [pc |-> "init", dir |-> dir, frame |-> frame, out |-> <<>>,
   node |-> [p \in {"wlist_rx_signal_table", "wlist_tx_signal_table"} |->
               [k \in DOMAIN WlistAt(p) |-> NullNode]]]

\* No call of ioc_ch_recv or ioc_ch_xmit is being followed.
IoIdle ==
  [pc |-> "idle", op |-> "none", id |-> "none", buf |-> "NULL", size |-> 0, count |-> 0,
   out |-> <<>>, nio |-> 0, err |-> {}, ret |-> 0]

\* The channel table ioc_ch_init leaves when every enabled channel opened.
RunFdTable ==
  [c \in ChIds |->
     LET i == CHOOSE j \in ChIdx : ChId(j) = c
     IN  IF ChStat(i) = IOC_CH_ON THEN RunFd(i) ELSE IOC_INIT_FD]

Init ==
  /\ qhead = [q \in {CBC_QUEUE_T_FREE, CBC_QUEUE_T_RX, CBC_QUEUE_T_TX} |->
               IF q = CBC_QUEUE_T_FREE THEN [i \in 1..IOC_MAX_REQUESTS |-> i] ELSE <<>>]
  /\ pool = [r \in Reqs |-> ZeroReq]
  /\ mtx = [q \in {CBC_QUEUE_T_FREE, CBC_QUEUE_T_RX, CBC_QUEUE_T_TX} |-> "none"]
  /\ woken = [w \in Workers |-> FALSE]
  /\ closing = 0
  /\ epfd = RunEpfd
  /\ fd = RunFdTable
  /\ ring = [buf |-> [i \in 0..(CBC_RING_BUFFER_SIZE - 1) |-> 0], head |-> 0, tail |-> 0]
  /\ core = [pc |-> "epoll_add", req |-> NoReq, ch |-> "none", evl |-> <<>>,
             count |-> 0, reg |-> {}]
  /\ wk = [w \in Workers |-> [pc |-> "lock", req |-> NoReq, qtype |-> "ZERO"]]
  /\ kpc = "idle"
  /\ chan_in = [c \in TrafficChs |-> <<>>]
  /\ sent = [c \in TrafficChs \cup {"fault"} |-> 0]
  /\ obs = [ret |-> FALSE, ndrop |-> 0, rxlog |-> <<>>]
  /\ ini = IniReturned
  /\ wl = WlIdle
  /\ io = IoIdle

(***************************************************************************)
(* The peers: the native CBC cdev and the guest's side of the virtual UART.*)
(***************************************************************************)
\* A service frame (its payload: a sequence number) becomes readable on a native cdev.
NativeArrive(c) ==
  /\ c \in TrafficChs \cap NativeChs
  /\ fd[c] >= 0
  /\ sent[c] < MaxNative
  /\ chan_in' = [chan_in EXCEPT ![c] = Append(@, sent[c] + 1)]
  /\ sent' = [sent EXCEPT ![c] = @ + 1]
  /\ UNCHANGED <<qhead, pool, mtx, woken, closing, epfd, fd, ring, core, wk, kpc, obs, ini, wl, io>>

\* The guest writes one complete link frame to the virtual UART.
UartArrive ==
  /\ fd[IOC_VIRTUAL_UART] >= 0
  /\ sent[IOC_VIRTUAL_UART] < MaxFrames
  /\ chan_in' = [chan_in EXCEPT ![IOC_VIRTUAL_UART] =
                   @ \o <<CBC_SOF_VALUE, sent[IOC_VIRTUAL_UART] + 1>>]
  /\ sent' = [sent EXCEPT ![IOC_VIRTUAL_UART] = @ + 1]
  /\ UNCHANGED <<qhead, pool, mtx, woken, closing, epfd, fd, ring, core, wk, kpc, obs, ini, wl, io>>

\* The guest writes IOC_MAX_REQUESTS + 1 complete link frames back to back.
RECURSIVE Frames(_)
Frames(n) == IF n = 0 THEN <<>> ELSE Frames(n - 1) \o <<CBC_SOF_VALUE, n>>

UartBurst ==
  /\ fd[IOC_VIRTUAL_UART] >= 0
  /\ sent[IOC_VIRTUAL_UART] = 0
  /\ chan_in' = [chan_in EXCEPT ![IOC_VIRTUAL_UART] = Frames(IOC_MAX_REQUESTS + 1)]
  /\ sent' = [sent EXCEPT ![IOC_VIRTUAL_UART] = IOC_MAX_REQUESTS + 1]
  /\ UNCHANGED <<qhead, pool, mtx, woken, closing, epfd, fd, ring, core, wk, kpc, obs, ini, wl, io>>

(***************************************************************************)
(* Channel I/O.                                                            *)
(***************************************************************************)
\* What read(fd, buf, size) returns on channel id when nothing goes wrong: one
\* datum (a service frame of a native cdev, one byte of the UART) when input is
\* pending, -1 with EAGAIN when none is.
ReadOk(id) == IF chan_in[id] # <<>> THEN {1} ELSE {-1}

\* A read that returns rc although input is pending is one of the run's faults:
\* the read fails (-1) or returns 0 bytes.
IsFault(id, rc) == rc <= 0 /\ chan_in[id] # <<>>
ReadFaults(id) ==
  IF chan_in[id] # <<>> /\ sent["fault"] < MaxFaults THEN {-1, 0} ELSE {}

ReadResults(id) == ReadOk(id) \cup ReadFaults(id)

\* ioc_ch_recv(id, buf, size) with buf non-null and size > 0, when read returns
\* rc: the count it returns, the bytes it stores and the input left pending.
ioc_ch_recv(id, rc) ==
  IF fd[id] < 0 THEN [count |-> -1, data |-> <<>>, rest |-> chan_in[id]]
  ELSE IF rc < 0 THEN [count |-> -1, data |-> <<>>, rest |-> chan_in[id]]
  ELSE IF rc = 0 THEN [count |-> 0, data |-> <<>>, rest |-> chan_in[id]]
  ELSE [count |-> rc, data |-> <<Head(chan_in[id])>>, rest |-> Tail(chan_in[id])]

(***************************************************************************)
(* The core thread (ioc_core_thread).                                      *)
(***************************************************************************)
\* Where the core thread goes when ioc_dispatch returns.
AfterEvent(evl) == IF evl = <<>> THEN "epoll_wait" ELSE "dispatch"

\* The channels epoll reports: registered, with input pending (level-triggered).
Ready == {c \in core.reg \cap TrafficChs : chan_in[c] # <<>>}

\* The event lists epoll_wait may return: the ready channels, in any order.
EventLists ==
  { <<c>> : c \in Ready } \cup
  { <<c, d>> : <<c, d>> \in {p \in Ready \X Ready : p[1] # p[2]} }

\* The loop that registers the channels with epoll.
CoreEpollAdd ==
  /\ core.pc = "epoll_add"
  /\ core' = [core EXCEPT !.pc = "epoll_wait", !.reg = {c \in ChIds : fd[c] > 0}]
  /\ UNCHANGED <<qhead, pool, mtx, woken, closing, epfd, fd, ring, wk, kpc,
                 chan_in, sent, obs, ini, wl, io>>

\* epoll_wait returns n > 0 events.
CoreWaitEvents ==
  /\ core.pc = "epoll_wait"
  /\ epfd # IOC_INIT_FD
  /\ \E evl \in EventLists :
       core' = [core EXCEPT !.pc = "dispatch", !.evl = evl]
  /\ UNCHANGED <<qhead, pool, mtx, woken, closing, epfd, fd, ring, wk, kpc,
                 chan_in, sent, obs, ini, wl, io>>

\* epoll_wait is interrupted: it returns n < 0 with errno = EINTR.
CoreWaitInterrupted ==
  /\ core.pc = "epoll_wait"
  /\ epfd # IOC_INIT_FD
  /\ core' = [core EXCEPT !.pc = "eintr", !.evl = <<>>]
  /\ UNCHANGED <<qhead, pool, mtx, woken, closing, epfd, fd, ring, wk, kpc,
                 chan_in, sent, obs, ini, wl, io>>

\* Faulty variant: EINTR is taken for a failure of the wait.
CoreWaitAgainExits ==
  /\ core.pc = "eintr"
  /\ core' = [core EXCEPT !.pc = "exit"]
  /\ UNCHANGED <<qhead, pool, mtx, woken, closing, epfd, fd, ring, wk, kpc,
                 chan_in, sent, obs, ini, wl, io>>

\* With n < 0 and errno = EINTR the test of line 853 fails and the for loop
\* runs 0 times: the thread calls epoll_wait again.
CoreWaitAgain ==
  /\ core.pc = "eintr"
  /\ core' = [core EXCEPT !.pc = "epoll_wait"]
  /\ UNCHANGED <<qhead, pool, mtx, woken, closing, epfd, fd, ring, wk, kpc,
                 chan_in, sent, obs, ini, wl, io>>

CoreWaitEintr == CoreWaitInterrupted \/ CoreWaitAgain

\* epoll_wait fails because ioc_kill_workers closed the epoll descriptor.
CoreWaitClosed ==
  /\ core.pc = "epoll_wait"
  /\ epfd = IOC_INIT_FD
  /\ core' = [core EXCEPT !.pc = "exit"]
  /\ UNCHANGED <<qhead, pool, mtx, woken, closing, epfd, fd, ring, wk, kpc,
                 chan_in, sent, obs, ini, wl, io>>

\* epoll_wait fails with another errno than EINTR.
CoreWaitError ==
  /\ core.pc = "epoll_wait"
  /\ epfd # IOC_INIT_FD
  /\ core' = [core EXCEPT !.pc = "exit"]
  /\ UNCHANGED <<qhead, pool, mtx, woken, closing, epfd, fd, ring, wk, kpc,
                 chan_in, sent, obs, ini, wl, io>>

\* ioc_dispatch on the next event of the list.
ioc_dispatch ==
  /\ core.pc = "dispatch"
  /\ core.evl # <<>>
  /\ LET c == Head(core.evl) IN
       core' = [core EXCEPT !.ch = c, !.evl = Tail(core.evl),
                  !.pc = IF c \in NativeChs THEN "ptx_deq"
                         ELSE IF c = IOC_VIRTUAL_UART THEN "prx_recv"
                         ELSE AfterEvent(Tail(core.evl))]
  /\ UNCHANGED <<qhead, pool, mtx, woken, closing, epfd, fd, ring, wk, kpc,
                 chan_in, sent, obs, ini, wl, io>>

\* ioc_process_tx, first part: take a request from the free queue, or drop.
ProcessTxDequeue ==
  /\ core.pc = "ptx_deq"
  /\ cbc_request_dequeue
  /\ IF DequeueResult = NoReq
     THEN /\ core' = [core EXCEPT !.pc = AfterEvent(core.evl), !.req = NoReq]
          /\ obs' = obs
     ELSE /\ core' = [core EXCEPT !.pc = "ptx_recv", !.req = DequeueResult]
          /\ obs' = obs
  /\ UNCHANGED <<pool, woken, closing, epfd, fd, ring, wk, kpc, chan_in, sent, ini, wl, io>>

\* ioc_process_tx, second part: read a service frame into the request at
\* CBC_SRV_POS and stamp the request.
ProcessTxRecv(rc) ==
  /\ core.pc = "ptx_recv"
  /\ rc \in ReadResults(core.ch)
  /\ LET rd == ioc_ch_recv(core.ch, rc) IN
       /\ chan_in' = [chan_in EXCEPT ![core.ch] = rd.rest]
       /\ sent' = IF IsFault(core.ch, rc) THEN [sent EXCEPT !["fault"] = @ + 1] ELSE sent
       /\ core' = [core EXCEPT !.pc = "ptx_enq", !.count = rd.count]
       /\ pool' = IF rd.count <= 0 THEN pool
                  ELSE [pool EXCEPT ![core.req] =
                          [@ EXCEPT !.buf = [@ EXCEPT ![CBC_SRV_POS] = rd.data[1]],
                                    !.srv_len = rd.count, !.link_len = 0,
                                    !.rtype = CBC_REQ_T_PROT, !.id = core.ch,
                                    !.org = <<core.ch, rd.data[1]>>, !.hops = 0]]
  /\ UNCHANGED <<qhead, mtx, woken, closing, epfd, fd, ring, wk, kpc, obs, ini, wl, io>>

\* Faulty variant: a request that was read into goes to the head of the tx queue.
ProcessTxEnqueueAtHead ==
  /\ core.pc = "ptx_enq"
  /\ cbc_request_enqueue(core.req,
        IF core.count <= 0 THEN CBC_QUEUE_T_FREE ELSE CBC_QUEUE_T_TX, core.count > 0)
  /\ core' = [core EXCEPT !.pc = AfterEvent(core.evl), !.req = NoReq, !.count = 0]
  /\ UNCHANGED <<pool, closing, epfd, fd, ring, wk, kpc, chan_in, sent, obs, ini, wl, io>>

\* Faulty variant: a request that was not read into goes to the tx queue too.
ProcessTxEnqueueAlways ==
  /\ core.pc = "ptx_enq"
  /\ cbc_request_enqueue(core.req, CBC_QUEUE_T_TX, FALSE)
  /\ core' = [core EXCEPT !.pc = AfterEvent(core.evl), !.req = NoReq, !.count = 0]
  /\ UNCHANGED <<pool, closing, epfd, fd, ring, wk, kpc, chan_in, sent, obs, ini, wl, io>>

\* ioc_process_tx, last part: the request goes to the tx queue tail, or back
\* to the free queue when nothing was read.
ProcessTxEnqueue ==
  /\ core.pc = "ptx_enq"
  /\ cbc_request_enqueue(core.req,
        IF core.count <= 0 THEN CBC_QUEUE_T_FREE ELSE CBC_QUEUE_T_TX, FALSE)
  /\ core' = [core EXCEPT !.pc = AfterEvent(core.evl), !.req = NoReq, !.count = 0]
  /\ UNCHANGED <<pool, closing, epfd, fd, ring, wk, kpc, chan_in, sent, obs, ini, wl, io>>

(***************************************************************************)
(* The ring buffer and the link-layer unpacking (codec contract).          *)
(***************************************************************************)
RingPos(i) == i % CBC_RING_BUFFER_SIZE
RingLen(rg) == RingPos(rg.tail - rg.head + CBC_RING_BUFFER_SIZE)

\* cbc_copy_to_ring for one byte: 0 and the byte stored at the tail, or -1 and
\* the ring untouched when the ring is full.
cbc_copy_to_ring(c, rg) ==
  IF RingPos(rg.tail + 1) # rg.head
  THEN [rc |-> 0, ring |-> [rg EXCEPT !.buf = [@ EXCEPT ![rg.tail] = c],
                                      !.tail = RingPos(rg.tail + 1)]]
  ELSE [rc |-> -1, ring |-> rg]

cbc_ring_skips(rg, n) == [rg EXCEPT !.head = RingPos(rg.head + n)]

\* cbc_unpack_link up to its next call of ioc_build_request: bytes at the head
\* that do not start a link frame are skipped one by one.
RECURSIVE SkipToFrame(_)
SkipToFrame(rg) ==
  IF rg.head # rg.tail /\ rg.buf[rg.head] # CBC_SOF_VALUE
  THEN SkipToFrame(cbc_ring_skips(rg, 1))
  ELSE rg

\* A complete link frame sits at the head of the ring.
FrameAtHead(rg) ==
  /\ RingLen(rg) >= CBC_MAX_LINK_SIZE
  /\ rg.buf[rg.head] = CBC_SOF_VALUE

\* ioc_process_rx: read one byte of the virtual UART and feed it to the ring;
\* a failed read returns before the ring is touched.
ioc_process_rx(rc) ==
  /\ core.pc = "prx_recv"
  /\ rc \in ReadResults(core.ch) \ {0}
  /\ LET rd == ioc_ch_recv(core.ch, rc) IN
       /\ chan_in' = [chan_in EXCEPT ![core.ch] = rd.rest]
       /\ sent' = IF IsFault(core.ch, rc) THEN [sent EXCEPT !["fault"] = @ + 1] ELSE sent
       /\ IF rd.count < 0
          THEN /\ core' = [core EXCEPT !.pc = AfterEvent(core.evl)]
               /\ ring' = ring
          ELSE LET cp == cbc_copy_to_ring(rd.data[1], ring) IN
               /\ ring' = cp.ring
               /\ core' = [core EXCEPT
                             !.pc = IF cp.rc = 0 THEN "unpack" ELSE AfterEvent(core.evl)]
  /\ UNCHANGED <<qhead, pool, mtx, woken, closing, epfd, fd, wk, kpc, obs, ini, wl, io>>

\* ioc_process_rx when the read returns 0: the return value is not negative, so
\* the local c, which no read has written, is fed to the ring.
ioc_process_rx_eof ==
  /\ core.pc = "prx_recv"
  /\ 0 \in ReadResults(core.ch)
  /\ LET rd == ioc_ch_recv(core.ch, 0) IN
       /\ chan_in' = [chan_in EXCEPT ![core.ch] = rd.rest]
       /\ sent' = IF IsFault(core.ch, 0) THEN [sent EXCEPT !["fault"] = @ + 1] ELSE sent
       /\ \E c \in UninitBytes :
            LET cp == cbc_copy_to_ring(c, ring) IN
            /\ ring' = cp.ring
            /\ core' = [core EXCEPT
                          !.pc = IF cp.rc = 0 THEN "unpack" ELSE AfterEvent(core.evl)]
  /\ UNCHANGED <<qhead, pool, mtx, woken, closing, epfd, fd, wk, kpc, obs, ini, wl, io>>

\* cbc_unpack_link: look for a complete link frame at the head of the ring.
UnpackScan ==
  /\ core.pc = "unpack"
  /\ ring' = SkipToFrame(ring)
  /\ core' = [core EXCEPT !.pc = IF FrameAtHead(SkipToFrame(ring)) THEN "br_deq"
                                 ELSE AfterEvent(core.evl)]
  /\ UNCHANGED <<qhead, pool, mtx, woken, closing, epfd, fd, wk, kpc,
                 chan_in, sent, obs, ini, wl, io>>

\* cbc_unpack_link after ioc_build_request has returned: the frame is skipped in
\* the ring, whether a request was built from it or not.
UnpackAdvance ==
  /\ core.pc = "br_ret"
  /\ ring' = cbc_ring_skips(ring, CBC_MAX_LINK_SIZE)
  /\ core' = [core EXCEPT !.pc = "unpack"]
  /\ UNCHANGED <<qhead, pool, mtx, woken, closing, epfd, fd, wk, kpc,
                 chan_in, sent, obs, ini, wl, io>>

cbc_unpack_link == UnpackScan \/ UnpackAdvance

\* ioc_build_request, first part: take a request from the free queue, or drop
\* the frame and return.
BuildRequestDequeue ==
  /\ core.pc = "br_deq"
  /\ cbc_request_dequeue
  /\ IF DequeueResult = NoReq
     THEN /\ core' = [core EXCEPT !.pc = "br_ret", !.req = NoReq]
          /\ ring' = ring
          /\ obs' = [obs EXCEPT !.ndrop = @ + 1]
     ELSE /\ core' = [core EXCEPT !.pc = "br_copy", !.req = DequeueResult]
          /\ ring' = ring
          /\ obs' = obs
  /\ UNCHANGED <<pool, woken, closing, epfd, fd, wk, kpc, chan_in, sent, ini, wl, io>>

\* Faulty variant: the copy starts at the head but does not wrap.
CopyFromRingNoWrap(rg, link_len) ==
  [i \in 0..(CBC_MAX_LINK_SIZE - 1) |->
     IF i < link_len /\ rg.head + i < CBC_RING_BUFFER_SIZE THEN rg.buf[rg.head + i] ELSE 0]

\* The bytes ioc_build_request copies: buf[i] = ring.buf[(head + i) & (size - 1)].
CopyFromRing(rg, link_len) ==
  [i \in 0..(CBC_MAX_LINK_SIZE - 1) |->
     IF i < link_len THEN rg.buf[RingPos(rg.head + i)] ELSE 0]

\* ioc_build_request, second part: copy the frame and set the lengths.
BuildRequestCopy ==
  /\ core.pc = "br_copy"
  /\ LET link_len == CBC_MAX_LINK_SIZE
         srv_len == CBC_MAX_LINK_SIZE - CBC_SRV_POS
         bytes == CopyFromRing(ring, link_len)
     IN pool' = [pool EXCEPT ![core.req] =
                   [@ EXCEPT !.buf = [i \in DOMAIN @ |->
                                        IF i < link_len THEN bytes[i] ELSE @[i]],
                             !.srv_len = srv_len, !.link_len = link_len,
                             !.org = <<IOC_VIRTUAL_UART, bytes[CBC_SRV_POS]>>,
                             !.hops = 0]]
  /\ core' = [core EXCEPT !.pc = "br_enq"]
  /\ UNCHANGED <<qhead, mtx, woken, closing, epfd, fd, ring, wk, kpc,
                 chan_in, sent, obs, ini, wl, io>>

\* ioc_build_request, last part: the request goes to the rx queue tail.
BuildRequestEnqueue ==
  /\ core.pc = "br_enq"
  /\ cbc_request_enqueue(core.req, CBC_QUEUE_T_RX, FALSE)
  /\ obs' = [obs EXCEPT !.rxlog = Append(@, pool[core.req].buf[CBC_SRV_POS])]
  /\ core' = [core EXCEPT !.pc = "br_ret", !.req = NoReq]
  /\ UNCHANGED <<pool, closing, epfd, fd, ring, wk, kpc, chan_in, sent, ini, wl, io>>

(***************************************************************************)
(* The rx and tx workers (ioc_rx_thread, ioc_tx_thread). Worker w serves   *)
(* queue w, under mutex w and condition variable w.                        *)
(***************************************************************************)
\* ioc_kill_workers has locked and unlocked worker w's mutex after it set closing.
Synced(w) ==
  IF w = "rx"
  THEN kpc \in {"k_join_rx", "k_sig_tx", "k_join_tx", "k_destroy", "k_ret", "free", "done"}
  ELSE kpc \in {"k_join_tx", "k_destroy", "k_ret", "free", "done"}

\* Faulty variant: the worker does not look at closing.
ClosingNeverSeen(w) == {0}

\* The values a worker's read of ioc->closing may yield. closing is a plain field
\* written by ioc_kill_workers under no lock: until the writer has gone through
\* the worker's mutex, the read races with the write and may yield the old value.
ClosingSeen(w) == IF closing = 1 /\ ~Synced(w) THEN {0, 1} ELSE {closing}

\* pthread_mutex_lock at the top of the loop.
WorkerLock(w) ==
  /\ wk[w].pc = "lock"
  /\ mtx[w] = "none"
  /\ mtx' = [mtx EXCEPT ![w] = w]
  /\ wk' = [wk EXCEPT ![w].pc = "locked"]
  /\ UNCHANGED <<qhead, pool, woken, closing, epfd, fd, ring, core, kpc,
                 chan_in, sent, obs, ini, wl, io>>

\* Faulty variant: packet.qtype keeps what the previous request left in it.
QtypeKept(w) == wk[w].qtype
\* packet.qtype as the worker sets it before it calls the handler.
QtypeReset(w) == CBC_QUEUE_T_FREE

\* Faulty variant: the head is removed and the handler entered with the mutex
\* still held.
WorkerTestKeepsMutex(w) ==
  /\ wk[w].pc = "locked"
  /\ IF SIMPLEQ_EMPTY(qhead[w])
     THEN /\ wk' = [wk EXCEPT ![w].pc = "wait"]
          /\ mtx' = [mtx EXCEPT ![w] = "none"]
          /\ woken' = [woken EXCEPT ![w] = FALSE]
          /\ qhead' = qhead
     ELSE \E c \in ClosingSeen(w) :
          IF c # 0
          THEN /\ wk' = [wk EXCEPT ![w].pc = "exit"]
               /\ UNCHANGED <<mtx, woken, qhead>>
          ELSE /\ wk' = [wk EXCEPT ![w].pc = "handler",
                                   ![w].req = SIMPLEQ_FIRST(qhead[w]),
                                   ![w].qtype = QtypeReset(w)]
               /\ qhead' = [qhead EXCEPT ![w] = SIMPLEQ_REMOVE_HEAD(@)]
               /\ UNCHANGED <<mtx, woken>>
  /\ UNCHANGED <<pool, closing, epfd, fd, ring, core, kpc, chan_in, sent, obs, ini, wl, io>>

\* With the mutex held: the test of the while loop. On an empty queue the worker
\* enters pthread_cond_wait (which releases the mutex). Otherwise it checks
\* closing, and then removes the head, unlocks, and resets packet.qtype.
WorkerTest(w) ==
  /\ wk[w].pc = "locked"
  /\ IF SIMPLEQ_EMPTY(qhead[w])
     THEN /\ wk' = [wk EXCEPT ![w].pc = "wait"]
          /\ mtx' = [mtx EXCEPT ![w] = "none"]
          /\ woken' = [woken EXCEPT ![w] = FALSE]
          /\ qhead' = qhead
     ELSE \E c \in ClosingSeen(w) :
          IF c # 0
          THEN /\ wk' = [wk EXCEPT ![w].pc = "exit"]
               /\ UNCHANGED <<mtx, woken, qhead>>
          ELSE /\ wk' = [wk EXCEPT ![w].pc = "handler",
                                   ![w].req = SIMPLEQ_FIRST(qhead[w]),
                                   ![w].qtype = QtypeReset(w)]
               /\ qhead' = [qhead EXCEPT ![w] = SIMPLEQ_REMOVE_HEAD(@)]
               /\ mtx' = [mtx EXCEPT ![w] = "none"]
               /\ woken' = woken
  /\ UNCHANGED <<pool, closing, epfd, fd, ring, core, kpc, chan_in, sent, obs, ini, wl, io>>

\* pthread_cond_wait returns: the mutex is re-acquired, closing is checked, and
\* the while loop tests the queue again.
WaitReturns(w) ==
  /\ mtx[w] = "none"
  /\ mtx' = [mtx EXCEPT ![w] = w]
  /\ woken' = [woken EXCEPT ![w] = FALSE]
  /\ \E c \in ClosingSeen(w) :
       wk' = [wk EXCEPT ![w].pc = IF c # 0 THEN "exit" ELSE "locked"]
  /\ UNCHANGED <<qhead, pool, closing, epfd, fd, ring, core, kpc, chan_in, sent, obs, ini, wl, io>>

\* The wait ends because the condition variable was signalled.
WorkerWake(w) ==
  /\ wk[w].pc = "wait"
  /\ woken[w]
  /\ WaitReturns(w)

\* The wait ends with no signal (POSIX allows spurious wakeups).
WorkerSpurious(w) ==
  /\ wk[w].pc = "wait"
  /\ ~woken[w]
  /\ WaitReturns(w)

\* The handler (ioc_dev_rx / ioc_dev_tx) runs on the request, with no mutex held,
\* and leaves its routing decision in packet.qtype, or leaves packet.qtype as
\* it found it.
WorkerHandler(w) ==
  /\ wk[w].pc = "handler"
  /\ \E qt \in {wk[w].qtype, CBC_QUEUE_T_FREE, CBC_QUEUE_T_RX, CBC_QUEUE_T_TX} :
       /\ qt = Opposite(w) => pool[wk[w].req].hops < MaxHops
       /\ wk' = [wk EXCEPT ![w].pc = "route", ![w].qtype = qt]
  /\ UNCHANGED <<qhead, pool, mtx, woken, closing, epfd, fd, ring, core, kpc,
                 chan_in, sent, obs, ini, wl, io>>

\* The routing after the handler: the queue and the end the request goes to.
RouteQueue(w) == IF wk[w].qtype = Opposite(w) THEN Opposite(w) ELSE CBC_QUEUE_T_FREE
RouteToHeadNever(w) == FALSE          \* Faulty variant: forwarding appends
RouteToHead(w) == wk[w].qtype = Opposite(w)

WorkerRoute(w) ==
  /\ wk[w].pc = "route"
  /\ cbc_request_enqueue(wk[w].req, RouteQueue(w), RouteToHead(w))
  /\ wk' = [wk EXCEPT ![w].pc = "lock"]
  /\ pool' = IF RouteQueue(w) = CBC_QUEUE_T_FREE THEN pool
             ELSE [pool EXCEPT ![wk[w].req].hops = @ + 1]
  /\ obs' = IF RouteQueue(w) = CBC_QUEUE_T_FREE THEN [obs EXCEPT !.ret = TRUE] ELSE obs
  /\ UNCHANGED <<closing, epfd, fd, ring, core, kpc, chan_in, sent, ini, wl, io>>

\* The exit label: unlock the mutex and return.
WorkerExit(w) ==
  /\ wk[w].pc = "exit"
  /\ mtx' = [mtx EXCEPT ![w] = "none"]
  /\ wk' = [wk EXCEPT ![w].pc = "done"]
  /\ UNCHANGED <<qhead, pool, woken, closing, epfd, fd, ring, core, kpc,
                 chan_in, sent, obs, ini, wl, io>>

ioc_rx_thread ==
  \/ WorkerLock("rx") \/ WorkerTest("rx") \/ WorkerWake("rx")
  \/ WorkerHandler("rx") \/ WorkerRoute("rx") \/ WorkerExit("rx")

ioc_tx_thread ==
  \/ WorkerLock("tx") \/ WorkerTest("tx") \/ WorkerWake("tx")
  \/ WorkerHandler("tx") \/ WorkerRoute("tx") \/ WorkerExit("tx")

(***************************************************************************)
(* ioc_deinit with a non-null handle: ioc_kill_workers, ioc_ch_deinit, and *)
(* the release of the device.                                              *)
(***************************************************************************)
\* The handle the caller of ioc_deinit passes: what ioc_init returned, and NULL
\* once ioc_deinit has freed the device.
CallerHandle == IF kpc = "done" THEN "NULL" ELSE ini.ret

\* Faulty variant: ioc_deinit does not test its handle.
HandleNeverNull(h) == FALSE
\* if (!ioc) at the entry of ioc_deinit.
HandleIsNull(h) == h = "NULL"

\* ioc_kill_workers is called by ioc_deinit on the handle ioc_init returned, and
\* by ioc_init itself at its work_err label.
DeinitCalled == ini.pc = "returned" /\ ~HandleIsNull(CallerHandle)
KillCalled == DeinitCalled \/ ini.pc = "kill_workers"

\* The position of a thread; "none" for a thread that was never created.
ThreadPc(t) == IF t = "core" THEN core.pc ELSE wk[t].pc

\* A step that misuses a pthread object has undefined behaviour: the model
\* records it and lets the run go on, or end in a crash (Crash below).
Misuse(rec, what, cond) == IF cond THEN [rec EXCEPT !.ub = @ \cup {what}] ELSE rec

KillSetClosing ==
  /\ kpc = "idle"
  /\ KillCalled
  /\ closing' = 1
  /\ kpc' = "k_close"
  /\ UNCHANGED <<qhead, pool, mtx, woken, epfd, fd, ring, core, wk, chan_in, sent, obs,
                 ini, wl, io>>

KillCloseEpfd ==
  /\ kpc = "k_close"
  /\ epfd' = IOC_INIT_FD
  /\ kpc' = "k_join_core"
  /\ UNCHANGED <<qhead, pool, mtx, woken, closing, fd, ring, core, wk, chan_in, sent, obs,
                 ini, wl, io>>

\* pthread_join(ioc->tid) returns once the core thread has returned.
KillJoinCore ==
  /\ kpc = "k_join_core"
  /\ core.pc = "exit"
  /\ kpc' = "k_sig_rx"
  /\ UNCHANGED <<qhead, pool, mtx, woken, closing, epfd, fd, ring, core, wk,
                 chan_in, sent, obs, ini, wl, io>>

\* lock, pthread_cond_signal, unlock on worker w's mutex and condition variable.
KillSignal(w) ==
  /\ kpc = IF w = "rx" THEN "k_sig_rx" ELSE "k_sig_tx"
  /\ mtx[w] = "none"
  /\ woken' = CondSignal(w)
  /\ kpc' = IF w = "rx" THEN "k_join_rx" ELSE "k_join_tx"
  /\ ini' = Misuse(ini, "use_destroyed", ini.sync[w] = "destroyed")
  /\ UNCHANGED <<qhead, pool, mtx, closing, epfd, fd, ring, core, wk, chan_in, sent, obs, wl, io>>

\* Faulty variant: the join returns while the worker still runs.
KillJoinNoWait(w) ==
  /\ kpc = IF w = "rx" THEN "k_join_rx" ELSE "k_join_tx"
  /\ kpc' = IF w = "rx" THEN "k_sig_tx" ELSE "k_destroy"
  /\ UNCHANGED <<qhead, pool, mtx, woken, closing, epfd, fd, ring, core, wk,
                 chan_in, sent, obs, ini, wl, io>>

\* pthread_join on worker w returns once the worker has returned.
KillJoin(w) ==
  /\ kpc = IF w = "rx" THEN "k_join_rx" ELSE "k_join_tx"
  /\ wk[w].pc = "done"
  /\ kpc' = IF w = "rx" THEN "k_sig_tx" ELSE "k_destroy"
  /\ UNCHANGED <<qhead, pool, mtx, woken, closing, epfd, fd, ring, core, wk,
                 chan_in, sent, obs, ini, wl, io>>

\* pthread_join on the pthread_t of a thread that was never created (the field
\* is as calloc left it): undefined behaviour; here the call returns.
KillJoinUncreated(t) ==
  /\ kpc = CASE t = "core" -> "k_join_core" [] t = "rx" -> "k_join_rx" [] OTHER -> "k_join_tx"
  /\ ThreadPc(t) = "none"
  /\ kpc' = CASE t = "core" -> "k_sig_rx" [] t = "rx" -> "k_sig_tx" [] OTHER -> "k_destroy"
  /\ ini' = Misuse(ini, "join_uncreated", TRUE)
  /\ UNCHANGED <<qhead, pool, mtx, woken, closing, epfd, fd, ring, core, wk,
                 chan_in, sent, obs, wl, io>>

\* The rx and tx mutexes and condition variables and the free mutex are destroyed.
KillDestroy ==
  /\ kpc = "k_destroy"
  /\ kpc' = "k_ret"
  /\ ini' = [Misuse(ini, "double_destroy", \E o \in DOMAIN ini.sync : ini.sync[o] = "destroyed")
               EXCEPT !.sync = [o \in DOMAIN ini.sync |-> "destroyed"]]
  /\ UNCHANGED <<qhead, pool, mtx, woken, closing, epfd, fd, ring, core, wk,
                 chan_in, sent, obs, wl, io>>

ioc_kill_workers ==
  \/ KillSetClosing \/ KillCloseEpfd \/ KillJoinCore
  \/ KillSignal("rx") \/ KillJoin("rx") \/ KillSignal("tx") \/ KillJoin("tx")
  \/ KillDestroy

\* ioc_ch_deinit: every channel with fd >= 0 is closed and reset.
ClosedFds(tbl) == [c \in DOMAIN tbl |-> IF tbl[c] < 0 THEN tbl[c] ELSE IOC_INIT_FD]

ioc_ch_deinit ==
  /\ kpc = "k_ret"
  /\ DeinitCalled
  /\ fd' = ClosedFds(fd)
  /\ kpc' = "free"
  /\ UNCHANGED <<qhead, pool, mtx, woken, closing, epfd, ring, core, wk,
                 chan_in, sent, obs, ini, wl, io>>

\* close(ioc->epfd) and the three free calls.
DeinitFree ==
  /\ kpc = "free"
  /\ kpc' = "done"
  /\ ini' = [ini EXCEPT !.ioc = "freed"]
  /\ UNCHANGED <<qhead, pool, mtx, woken, closing, epfd, fd, ring, core, wk,
                 chan_in, sent, obs, wl, io>>

ioc_deinit == ioc_kill_workers \/ ioc_ch_deinit \/ DeinitFree

\* Calls of ioc_deinit with a null handle in one run.
MaxNullCalls == 2

\* ioc_deinit called with a null handle: the test at its entry returns.
ioc_deinit_null ==
  /\ ini.pc = "returned"
  /\ HandleIsNull(CallerHandle)
  /\ ini.ncall < MaxNullCalls
  /\ ini' = [ini EXCEPT !.ncall = @ + 1]
  /\ UNCHANGED <<qhead, pool, mtx, woken, closing, epfd, fd, ring, core, wk, kpc,
                 chan_in, sent, obs, wl, io>>

(***************************************************************************)
(* ioc_init. The environment lets it fail where the code checks for a      *)
(* failure: the two pre-checks, the allocations, epoll_create1, the opens  *)
(* of ioc_ch_init and the three pthread_create calls.                      *)
(***************************************************************************)
\* Failures injected into one run of ioc_init.
MaxInitFaults == 2
MayFail == ini.nfault < MaxInitFaults
Failed(rec) == [rec EXCEPT !.nfault = @ + 1]

\* stat(IOC_NP_ESIG): 0 when the early signal channel exists.
ioc_is_platform_supported == IF ini.supported THEN 0 ELSE -1

\* Faulty variant: the boot reason is not looked at.
PreChecksIgnoreBootReason == ioc_is_platform_supported = 0
\* The two checks ioc_init makes before it allocates anything.
PreChecksPass == ioc_is_platform_supported = 0 /\ ini.boot_reason # 0

InitPreChecks ==
  /\ ini.pc = "start"
  /\ ini' = [ini EXCEPT !.pc = IF PreChecksPass THEN "alloc" ELSE "ioc_err"]
  /\ UNCHANGED <<qhead, pool, mtx, woken, closing, epfd, fd, ring, core, wk, kpc,
                 chan_in, sent, obs, wl, io>>

\* The three calloc calls.
InitAlloc ==
  /\ ini.pc = "alloc"
  /\ \/ ini' = [ini EXCEPT !.pc = "epoll", !.ioc = "alloc"]
     \/ MayFail /\ ini' = [Failed(ini) EXCEPT !.pc = "ioc_err"]
     \/ MayFail /\ ini' = [Failed(ini) EXCEPT !.pc = "alloc_err", !.ioc = "alloc"]
  /\ UNCHANGED <<qhead, pool, mtx, woken, closing, epfd, fd, ring, core, wk, kpc,
                 chan_in, sent, obs, wl, io>>

\* epoll_create1, then the free queue and its mutex.
InitEpoll ==
  /\ ini.pc = "epoll"
  /\ \/ /\ epfd' = RunEpfd
        /\ qhead' = [qhead EXCEPT ![CBC_QUEUE_T_FREE] = [i \in 1..IOC_MAX_REQUESTS |-> i]]
        /\ ini' = [ini EXCEPT !.pc = "ch_init", !.i = 1, !.sync[CBC_QUEUE_T_FREE] = "init"]
     \/ /\ MayFail
        /\ ini' = [Failed(ini) EXCEPT !.pc = "alloc_err"]
        /\ UNCHANGED <<epfd, qhead>>
  /\ UNCHANGED <<pool, mtx, woken, closing, fd, ring, core, wk, kpc, chan_in, sent, obs, wl, io>>

\* Faulty variant: only the lifecycle channel is critical.
IsCriticalLfccOnly(i) == ChId(i) = IOC_NATIVE_LFCC
\* The channels that must open.
IsCritical(i) == ChId(i) = IOC_NATIVE_LFCC \/ ChId(i) = IOC_VIRTUAL_UART

\* What the switch of ioc_ch_init assigns to fd for channel i.
OpenResults(i) ==
  IF ChId(i) \in NativeChs \cup {IOC_VIRTUAL_UART}
  THEN {RunFd(i)} \cup (IF MayFail THEN {-1} ELSE {})
  ELSE {-1}

\* One iteration of the loop of ioc_ch_init.
ioc_ch_init ==
  /\ ini.pc = "ch_init"
  /\ LET i == ini.i
         next == IF i = Len(ioc_ch_tbl) THEN "setup" ELSE "ch_init"
     IN  IF ChStat(i) = IOC_CH_OFF
         THEN /\ ini' = [ini EXCEPT !.i = i + 1, !.pc = next]
              /\ fd' = fd
         ELSE \E f \in OpenResults(i) :
                LET rec == IF f < 0 THEN [Failed(ini) EXCEPT !.failed = @ \cup {ChId(i)}]
                           ELSE [ini EXCEPT !.symlink = @ \/ ChId(i) = IOC_VIRTUAL_UART]
                IN  IF f < 0 /\ IsCritical(i)
                    THEN /\ ini' = [rec EXCEPT !.pc = "chl_err"]
                         /\ fd' = fd
                    ELSE /\ ini' = [rec EXCEPT !.i = i + 1, !.pc = next]
                         /\ fd' = [fd EXCEPT ![ChId(i)] = f]
  /\ UNCHANGED <<qhead, pool, mtx, woken, closing, epfd, ring, core, wk, kpc,
                 chan_in, sent, obs, wl, io>>

\* The whitelists are initialised: the wlist_init_signal and wlist_init_group
\* calls that follow ioc_ch_init.
InitWlists ==
  /\ ini.pc = "setup"
  /\ ini' = [ini EXCEPT !.pc = "members"]
  /\ wl' = [wl EXCEPT !.node = InitWhitelists, !.pc = "idle"]
  /\ UNCHANGED <<qhead, pool, mtx, woken, closing, epfd, fd, ring, core, wk, kpc,
                 chan_in, sent, obs, io>>

\* The rx members, then the tx members: condition variable, mutex and queue.
InitMembers ==
  /\ ini.pc = "members"
  /\ ini' = [ini EXCEPT !.pc = "create_rx", !.sync[CBC_QUEUE_T_RX] = "init",
                        !.sync[CBC_QUEUE_T_TX] = "init"]
  /\ qhead' = [qhead EXCEPT ![CBC_QUEUE_T_RX] = <<>>, ![CBC_QUEUE_T_TX] = <<>>]
  /\ UNCHANGED <<pool, mtx, woken, closing, epfd, fd, ring, core, wk, kpc,
                 chan_in, sent, obs, wl, io>>

\* What ioc_init does between ioc_ch_init and the creation of the threads.
InitSetup == InitWlists \/ InitMembers

\* Faulty variant: the core thread is created before the tx worker.
AfterCreateCoreFirst(t) ==
  CASE t = "rx" -> "create_core" [] t = "core" -> "create_tx" [] OTHER -> "returned"

\* ioc_create_thread for thread t: the thread starts, or pthread_create fails.
AfterCreate(t) ==
  CASE t = "rx" -> "create_tx" [] t = "tx" -> "create_core" [] OTHER -> "returned"

ioc_create_thread(t) ==
  /\ ini.pc = CASE t = "rx" -> "create_rx" [] t = "tx" -> "create_tx" [] OTHER -> "create_core"
  /\ \/ /\ ini' = [ini EXCEPT !.pc = AfterCreate(t),
                              !.ret = IF t = "core" THEN "ioc" ELSE @]
        /\ core' = IF t = "core" THEN [core EXCEPT !.pc = "epoll_add"] ELSE core
        /\ wk' = IF t = "core" THEN wk ELSE [wk EXCEPT ![t].pc = "lock"]
     \/ /\ MayFail
        /\ ini' = [Failed(ini) EXCEPT !.pc = "work_err"]
        /\ UNCHANGED <<core, wk>>
  /\ UNCHANGED <<qhead, pool, mtx, woken, closing, epfd, fd, ring, kpc,
                 chan_in, sent, obs, wl, io>>

\* The work_err label up to its call of ioc_kill_workers: the rx and tx mutexes
\* and condition variables are destroyed, whether or not a worker uses them.
WorkErr ==
  /\ ini.pc = "work_err"
  /\ ini' = [Misuse(ini, "destroy_in_use", \E w \in Workers : wk[w].pc \notin {"none", "done"})
               EXCEPT !.pc = "kill_workers",
                      !.sync[CBC_QUEUE_T_RX] = "destroyed",
                      !.sync[CBC_QUEUE_T_TX] = "destroyed"]
  /\ UNCHANGED <<qhead, pool, mtx, woken, closing, epfd, fd, ring, core, wk, kpc,
                 chan_in, sent, obs, wl, io>>

\* The chl_err label: ioc_ch_deinit, the free mutex is destroyed, the epoll
\* descriptor is closed. Reached from ioc_ch_init, or after ioc_kill_workers.
ChlErr ==
  /\ \/ ini.pc = "chl_err"
     \/ ini.pc = "kill_workers" /\ kpc = "k_ret"
  /\ fd' = ClosedFds(fd)
  /\ epfd' = IOC_INIT_FD
  /\ ini' = [Misuse(ini, "double_destroy", ini.sync[CBC_QUEUE_T_FREE] = "destroyed")
               EXCEPT !.pc = "alloc_err", !.sync[CBC_QUEUE_T_FREE] = "destroyed"]
  /\ UNCHANGED <<qhead, pool, mtx, woken, closing, ring, core, wk, kpc,
                 chan_in, sent, obs, wl, io>>

\* The alloc_err label: the three free calls.
AllocErr ==
  /\ ini.pc = "alloc_err"
  /\ ini' = [ini EXCEPT !.pc = "ioc_err", !.ioc = "freed"]
  /\ UNCHANGED <<qhead, pool, mtx, woken, closing, epfd, fd, ring, core, wk, kpc,
                 chan_in, sent, obs, wl, io>>

\* The ioc_err label: ioc_init returns NULL.
IocErr ==
  /\ ini.pc = "ioc_err"
  /\ ini' = [ini EXCEPT !.pc = "returned", !.ret = "NULL"]
  /\ UNCHANGED <<qhead, pool, mtx, woken, closing, epfd, fd, ring, core, wk, kpc,
                 chan_in, sent, obs, wl, io>>

\* After a step with undefined behaviour the process may end at any time.
Crash ==
  /\ ini.ub # {}
  /\ ini.pc # "crashed"
  /\ ini' = [ini EXCEPT !.pc = "crashed"]
  /\ kpc' = "crashed"
  /\ core' = [core EXCEPT !.pc = "dead"]
  /\ wk' = [w \in Workers |-> [wk[w] EXCEPT !.pc = "dead"]]
  /\ UNCHANGED <<qhead, pool, mtx, woken, closing, epfd, fd, ring, chan_in, sent, obs, wl, io>>

ioc_init ==
  \/ InitPreChecks \/ InitAlloc \/ InitEpoll \/ ioc_ch_init \/ InitSetup
  \/ ioc_create_thread("rx") \/ ioc_create_thread("tx") \/ ioc_create_thread("core")
  \/ WorkErr \/ ChlErr \/ AllocErr \/ IocErr

\* Before ioc_init: nothing is allocated, no channel is open, no thread exists.
InitBoot ==
  /\ qhead = [q \in {CBC_QUEUE_T_FREE, CBC_QUEUE_T_RX, CBC_QUEUE_T_TX} |-> <<>>]
  /\ pool = [r \in Reqs |-> ZeroReq]
  /\ mtx = [q \in {CBC_QUEUE_T_FREE, CBC_QUEUE_T_RX, CBC_QUEUE_T_TX} |-> "none"]
  /\ woken = [w \in Workers |-> FALSE]
  /\ closing = 0
  /\ epfd = IOC_INIT_FD
  /\ fd = [c \in ChIds |-> IOC_INIT_FD]
  /\ ring = [buf |-> [i \in 0..(CBC_RING_BUFFER_SIZE - 1) |-> 0], head |-> 0, tail |-> 0]
  /\ core = [pc |-> "none", req |-> NoReq, ch |-> "none", evl |-> <<>>,
             count |-> 0, reg |-> {}]
  /\ wk = [w \in Workers |-> [pc |-> "none", req |-> NoReq, qtype |-> "ZERO"]]
  /\ kpc = "idle"
  /\ chan_in = [c \in TrafficChs |-> <<>>]
  /\ sent = [c \in TrafficChs \cup {"fault"} |-> 0]
  /\ obs = [ret |-> FALSE, ndrop |-> 0, rxlog |-> <<>>]
  /\ ini \in {IniStart(s, b) : s \in BOOLEAN, b \in {0, 1}}
  /\ wl = WlStart("rx", <<>>)
  /\ io = IoIdle

\* ioc_init, the threads it creates (with no traffic on the channels), and
\* ioc_deinit on the device it returned.
NextInit ==
  \/ ioc_init
  \/ CoreEpollAdd \/ CoreWaitEintr \/ CoreWaitClosed \/ CoreWaitError
  \/ \E w \in Workers :
       WorkerLock(w) \/ WorkerTest(w) \/ WorkerWake(w) \/ WorkerSpurious(w) \/ WorkerExit(w)
  \/ ioc_deinit
  \/ \E t \in Threads : KillJoinUncreated(t)
  \/ Crash

SpecInit == InitBoot /\ [][NextInit]_vars

\* ioc_init, ioc_deinit, and further calls of ioc_deinit with a null handle.
NextLife == NextInit \/ ioc_deinit_null

SpecLife == InitBoot /\ [][NextLife]_vars

(***************************************************************************)
(* The whitelist filter on one frame: ioc_init initialises the whitelists, *)
(* then the handler of one direction filters the signal ids of one frame.  *)
(***************************************************************************)
WlistInit ==
  /\ wl.pc = "init"
  /\ wl' = [wl EXCEPT !.pc = "ready", !.node = InitWhitelists]
  /\ UNCHANGED <<qhead, pool, mtx, woken, closing, epfd, fd, ring, core, wk, kpc,
                 chan_in, sent, obs, ini, io>>

WlistFilter ==
  /\ wl.pc = "ready"
  /\ wl' = [wl EXCEPT !.pc = "done",
                      !.out = FilterSignals(PacketCfg(wl.dir), wl.node, wl.frame)]
  /\ UNCHANGED <<qhead, pool, mtx, woken, closing, epfd, fd, ring, core, wk, kpc,
                 chan_in, sent, obs, ini, io>>

InitWl ==
  /\ qhead = [q \in {CBC_QUEUE_T_FREE, CBC_QUEUE_T_RX, CBC_QUEUE_T_TX} |-> <<>>]
  /\ pool = [r \in Reqs |-> ZeroReq]
  /\ mtx = [q \in {CBC_QUEUE_T_FREE, CBC_QUEUE_T_RX, CBC_QUEUE_T_TX} |-> "none"]
  /\ woken = [w \in Workers |-> FALSE]
  /\ closing = 0
  /\ epfd = IOC_INIT_FD
  /\ fd = [c \in ChIds |-> IOC_INIT_FD]
  /\ ring = [buf |-> [i \in 0..(CBC_RING_BUFFER_SIZE - 1) |-> 0], head |-> 0, tail |-> 0]
  /\ core = [pc |-> "none", req |-> NoReq, ch |-> "none", evl |-> <<>>,
             count |-> 0, reg |-> {}]
  /\ wk = [w \in Workers |-> [pc |-> "none", req |-> NoReq, qtype |-> "ZERO"]]
  /\ kpc = "idle"
  /\ chan_in = [c \in TrafficChs |-> <<>>]
  /\ sent = [c \in TrafficChs \cup {"fault"} |-> 0]
  /\ obs = [ret |-> FALSE, ndrop |-> 0, rxlog |-> <<>>]
  /\ ini = IniStart(TRUE, 1)
  /\ wl \in {WlStart(dir, frame) : dir \in Workers, frame \in SigFrames}
  /\ io = IoIdle

NextWl == WlistInit \/ WlistFilter

SpecWl == InitWl /\ [][NextWl]_vars

(***************************************************************************)
(* The running mediator.                                                   *)
(***************************************************************************)
ReadRc == {-1, 0, 1}

Peers ==
  \/ \E c \in TrafficChs : NativeArrive(c)
  \/ UartArrive

ioc_process_tx ==
  \/ ProcessTxDequeue
  \/ \E rc \in ReadRc : ProcessTxRecv(rc)
  \/ ProcessTxEnqueue

ioc_build_request == BuildRequestDequeue \/ BuildRequestCopy \/ BuildRequestEnqueue

ioc_core_thread ==
  \/ CoreEpollAdd \/ CoreWaitEvents \/ CoreWaitEintr \/ CoreWaitClosed
  \/ CoreWaitError \/ ioc_dispatch \/ ioc_process_tx
  \/ (\E rc \in ReadRc : ioc_process_rx(rc)) \/ ioc_process_rx_eof
  \/ cbc_unpack_link \/ ioc_build_request

Spurious == WorkerSpurious("rx") \/ WorkerSpurious("tx")

\* The mediator from the return of ioc_init to the return of ioc_deinit.
Next ==
  \/ Peers
  \/ ioc_core_thread
  \/ ioc_rx_thread
  \/ ioc_tx_thread
  \/ Spurious
  \/ ioc_deinit

Spec == Init /\ [][Next]_vars

(***************************************************************************)
(* Shutdown under fair scheduling: the virtual UART carries traffic, reads *)
(* do not fault, and every thread that can take a step eventually does (a  *)
(* thread that locks a mutex is not overtaken for ever). A condition wait  *)
(* is not assumed to end without a signal.                                 *)
(***************************************************************************)
\* ioc_process_rx when the read does not fault.
ProcessRxNoFault ==
  \E rc \in ReadRc :
    /\ core.pc = "prx_recv"
    /\ rc \in ReadOk(core.ch)
    /\ ioc_process_rx(rc)

\* The core thread's handling of a virtual UART event when reads do not fault.
UartIngress == ProcessRxNoFault \/ cbc_unpack_link \/ ioc_build_request

CoreShutdown ==
  \/ CoreEpollAdd \/ CoreWaitEvents \/ CoreWaitEintr \/ CoreWaitClosed
  \/ ioc_dispatch \/ UartIngress

NextShutdown ==
  \/ UartArrive
  \/ CoreShutdown
  \/ ioc_rx_thread
  \/ ioc_tx_thread
  \/ Spurious
  \/ ioc_deinit

FairThreads ==
  /\ WF_vars(CoreEpollAdd \/ CoreWaitEvents \/ CoreWaitAgain \/ CoreWaitClosed
               \/ ioc_dispatch \/ UartIngress)
  /\ WF_vars(ioc_rx_thread)
  /\ WF_vars(ioc_tx_thread)
  /\ SF_vars(ioc_deinit)

SpecShutdown == Init /\ [][NextShutdown]_vars /\ FairThreads

(***************************************************************************)
(* Scenario S6: a burst of IOC_MAX_REQUESTS + 1 link frames on the virtual *)
(* UART, no other traffic, no shutdown, fair scheduling.                   *)
(***************************************************************************)
WorkerRun(w) ==
  \/ WorkerLock(w) \/ WorkerTest(w) \/ WorkerWake(w)
  \/ WorkerHandler(w) \/ WorkerRoute(w)

CoreS6 == CoreEpollAdd \/ CoreWaitEvents \/ ioc_dispatch \/ UartIngress

NextS6 ==
  \/ UartBurst
  \/ CoreS6
  \/ WorkerRun("rx")
  \/ WorkerRun("tx")

SpecS6 ==
  /\ Init /\ [][NextS6]_vars
  /\ WF_vars(CoreS6) /\ WF_vars(WorkerRun("rx")) /\ WF_vars(WorkerRun("tx"))

(***************************************************************************)
(* Steady state: the native cdev delivers service frames without end,      *)
(* reads do not fault, nobody calls ioc_deinit, and epoll_wait may fail at *)
(* any time. Scheduling is fair: a thread that can take a step again and   *)
(* again takes one (a thread that tries to lock a mutex is not overtaken   *)
(* for ever).                                                              *)
(***************************************************************************)
\* The native cdev has a new service frame as soon as the last one was read.
NativeArriveSteady ==
  /\ fd[IOC_NATIVE_LFCC] >= 0
  /\ chan_in[IOC_NATIVE_LFCC] = <<>>
  /\ chan_in' = [chan_in EXCEPT ![IOC_NATIVE_LFCC] = <<1>>]
  /\ UNCHANGED <<qhead, pool, mtx, woken, closing, epfd, fd, ring, core, wk, kpc,
                 sent, obs, ini, wl, io>>

\* ioc_process_tx when the read does not fault.
ProcessTxNoFault ==
  \/ ProcessTxDequeue
  \/ \E rc \in ReadRc :
       core.pc = "ptx_recv" /\ rc \in ReadOk(core.ch) /\ ProcessTxRecv(rc)
  \/ ProcessTxEnqueue

CoreSteady == CoreEpollAdd \/ CoreWaitEvents \/ ioc_dispatch \/ ProcessTxNoFault

NextSteady ==
  \/ NativeArriveSteady
  \/ CoreSteady
  \/ CoreWaitError
  \/ WorkerRun("rx")
  \/ WorkerRun("tx")

SpecSteady ==
  /\ Init /\ [][NextSteady]_vars
  /\ SF_vars(CoreSteady) /\ SF_vars(WorkerRun("rx")) /\ SF_vars(WorkerRun("tx"))

(***************************************************************************)
(* Native ingress: the native cdev delivers MaxNativeRun service frames,   *)
(* reads may fault, epoll_wait may be interrupted or fail, the workers     *)
(* run, nobody calls ioc_deinit.                                           *)
(***************************************************************************)
\* Service frames the native lifecycle channel delivers in such a run.
MaxNativeRun == 2

NativeArriveRun ==
  /\ fd[IOC_NATIVE_LFCC] >= 0
  /\ sent[IOC_NATIVE_LFCC] < MaxNativeRun
  /\ chan_in' = [chan_in EXCEPT ![IOC_NATIVE_LFCC] = Append(@, sent[IOC_NATIVE_LFCC] + 1)]
  /\ sent' = [sent EXCEPT ![IOC_NATIVE_LFCC] = @ + 1]
  /\ UNCHANGED <<qhead, pool, mtx, woken, closing, epfd, fd, ring, core, wk, kpc, obs,
                 ini, wl, io>>

CoreNative ==
  \/ CoreEpollAdd \/ CoreWaitEvents \/ CoreWaitEintr \/ CoreWaitError
  \/ ioc_dispatch \/ ioc_process_tx

NextNative ==
  \/ NativeArriveRun
  \/ CoreNative
  \/ WorkerRun("rx")
  \/ WorkerRun("tx")

SpecNative == Init /\ [][NextNative]_vars

(***************************************************************************)
(* Registration of the channels: the native run above, started from each   *)
(* channel table ioc_ch_init can leave behind.  open returns the lowest    *)
(* free descriptor, so the first channel holds 0 when descriptor 0 had     *)
(* been closed in the process by the time ioc_ch_init opened it.           *)
(***************************************************************************)
LowFdTable == [RunFdTable EXCEPT ![IOC_NATIVE_LFCC] = 0]

InitReg ==
  /\ qhead = [q \in {CBC_QUEUE_T_FREE, CBC_QUEUE_T_RX, CBC_QUEUE_T_TX} |->
               IF q = CBC_QUEUE_T_FREE THEN [i \in 1..IOC_MAX_REQUESTS |-> i] ELSE <<>>]
  /\ pool = [r \in Reqs |-> ZeroReq]
  /\ mtx = [q \in {CBC_QUEUE_T_FREE, CBC_QUEUE_T_RX, CBC_QUEUE_T_TX} |-> "none"]
  /\ woken = [w \in Workers |-> FALSE]
  /\ closing = 0
  /\ epfd = RunEpfd
  /\ fd \in {RunFdTable, LowFdTable}
  /\ ring = [buf |-> [i \in 0..(CBC_RING_BUFFER_SIZE - 1) |-> 0], head |-> 0, tail |-> 0]
  /\ core = [pc |-> "epoll_add", req |-> NoReq, ch |-> "none", evl |-> <<>>,
             count |-> 0, reg |-> {}]
  /\ wk = [w \in Workers |-> [pc |-> "lock", req |-> NoReq, qtype |-> "ZERO"]]
  /\ kpc = "idle"
  /\ chan_in = [c \in TrafficChs |-> <<>>]
  /\ sent = [c \in TrafficChs \cup {"fault"} |-> 0]
  /\ obs = [ret |-> FALSE, ndrop |-> 0, rxlog |-> <<>>]
  /\ ini = IniReturned
  /\ wl = WlIdle
  /\ io = IoIdle

SpecReg == InitReg /\ [][NextNative]_vars

(***************************************************************************)
(* Virtual UART ingress: the guest writes MaxFrames link frames, reads may *)
(* fault or return nothing, epoll_wait may be interrupted or fail, the     *)
(* workers run, nobody calls ioc_deinit.                                   *)
(***************************************************************************)
CoreUart ==
  \/ CoreEpollAdd \/ CoreWaitEvents \/ CoreWaitEintr \/ CoreWaitError \/ ioc_dispatch
  \/ (\E rc \in ReadRc : ioc_process_rx(rc)) \/ ioc_process_rx_eof
  \/ cbc_unpack_link \/ ioc_build_request

NextUart ==
  \/ UartArrive
  \/ CoreUart
  \/ WorkerRun("rx")
  \/ WorkerRun("tx")

SpecUart == Init /\ [][NextUart]_vars

(***************************************************************************)
(* ioc_ch_recv and ioc_ch_xmit, one call at a time, with the results the   *)
(* kernel may give to read and write on a non-blocking fd.                 *)
(***************************************************************************)
\* Size of the buffer handed to a call.
MaxXmit == 3
\* The bytes of a non-null buffer ("buf"): they tell their positions apart.
XmitBuf == [i \in 1..MaxXmit |-> i]
\* The channels of the calls: two enabled ones and one that is switched off.
IoChs == {IOC_NATIVE_LFCC, IOC_VIRTUAL_UART, "IOC_NATIVE_PMT"}
\* errno of a failed read or write: the fd would block, or a hard failure.
Errnos == {"EAGAIN", "EIO"}

IoStart(op, id, buf, size) ==
  [IoIdle EXCEPT !.pc = "call", !.op = op, !.id = id, !.buf = buf, !.size = size]

\* Faulty variant: only the fd is tested.
ChArgsBadFdOnly(fdv, buf, size) == fdv < 0
\* if (fd < 0 || !buf || size == 0) return -1;
ChArgsBad(fdv, buf, size) == fdv < 0 \/ buf = "NULL" \/ size = 0

\* Faulty variant: every write starts at the first byte of the buffer.
WriteFromStart(count) == 0
\* write(fd, (buf + count), (size - count)): the offset of the first byte written.
WriteFrom(count) == count

\* The counts a successful write of n bytes may return (short writes).
WriteResults(n) == 1..n

\* ioc_ch_recv: the argument test, then one read.
ChRecv ==
  /\ io.pc = "call"
  /\ io.op = "recv"
  /\ IF ChArgsBad(fd[io.id], io.buf, io.size)
     THEN io' = [io EXCEPT !.pc = "ret", !.ret = -1]
     ELSE \/ \E rc \in 0..io.size :
               io' = [io EXCEPT !.pc = "ret", !.nio = @ + 1, !.count = rc, !.ret = rc]
          \/ \E e \in Errnos :
               io' = [io EXCEPT !.pc = "ret", !.nio = @ + 1, !.err = @ \cup {e}, !.ret = -1]
  /\ UNCHANGED <<qhead, pool, mtx, woken, closing, epfd, fd, ring, core, wk, kpc,
                 chan_in, sent, obs, ini, wl>>

\* ioc_ch_xmit: the argument test.
ChXmitCall ==
  /\ io.pc = "call"
  /\ io.op = "xmit"
  /\ io' = IF ChArgsBad(fd[io.id], io.buf, io.size)
           THEN [io EXCEPT !.pc = "ret", !.ret = -1]
           ELSE [io EXCEPT !.pc = "loop", !.count = 0]
  /\ UNCHANGED <<qhead, pool, mtx, woken, closing, epfd, fd, ring, core, wk, kpc,
                 chan_in, sent, obs, ini, wl>>

\* ioc_ch_xmit: one pass of while (count < size), or the return of count. A
\* write that fails, whatever its errno, breaks the loop.
ChXmitWrite ==
  /\ io.pc = "loop"
  /\ IF io.count < io.size
     THEN \/ \E rc \in WriteResults(io.size - io.count) :
               io' = [io EXCEPT !.nio = @ + 1,
                                !.out = @ \o SubSeq(XmitBuf, WriteFrom(io.count) + 1,
                                                    WriteFrom(io.count) + rc),
                                !.count = @ + rc]
          \/ \E e \in Errnos :
               io' = [io EXCEPT !.pc = "ret", !.nio = @ + 1, !.err = @ \cup {e},
                                !.ret = io.count]
     ELSE io' = [io EXCEPT !.pc = "ret", !.ret = io.count]
  /\ UNCHANGED <<qhead, pool, mtx, woken, closing, epfd, fd, ring, core, wk, kpc,
                 chan_in, sent, obs, ini, wl>>

ioc_ch_xmit == ChXmitCall \/ ChXmitWrite

\* The channel table after ioc_ch_deinit, and before ioc_ch_init.
ClosedFdTable == [c \in ChIds |-> IOC_INIT_FD]

\* One call, on a channel table that is open or closed, with a null or a
\* non-null buffer and any size up to the buffer's.
InitIo ==
  /\ qhead = [q \in {CBC_QUEUE_T_FREE, CBC_QUEUE_T_RX, CBC_QUEUE_T_TX} |-> <<>>]
  /\ pool = [r \in Reqs |-> ZeroReq]
  /\ mtx = [q \in {CBC_QUEUE_T_FREE, CBC_QUEUE_T_RX, CBC_QUEUE_T_TX} |-> "none"]
  /\ woken = [w \in Workers |-> FALSE]
  /\ closing = 0
  /\ epfd = IOC_INIT_FD
  /\ fd \in {RunFdTable, ClosedFdTable}
  /\ ring = [buf |-> [i \in 0..(CBC_RING_BUFFER_SIZE - 1) |-> 0], head |-> 0, tail |-> 0]
  /\ core = [pc |-> "none", req |-> NoReq, ch |-> "none", evl |-> <<>>,
             count |-> 0, reg |-> {}]
  /\ wk = [w \in Workers |-> [pc |-> "none", req |-> NoReq, qtype |-> "ZERO"]]
  /\ kpc = "idle"
  /\ chan_in = [c \in TrafficChs |-> <<>>]
  /\ sent = [c \in TrafficChs \cup {"fault"} |-> 0]
  /\ obs = [ret |-> FALSE, ndrop |-> 0, rxlog |-> <<>>]
  /\ ini = IniStart(TRUE, 1)
  /\ wl = WlIdle
  /\ io \in {IoStart(op, id, buf, size) :
               op \in {"recv", "xmit"}, id \in IoChs,
               buf \in {"NULL", "buf"}, size \in 0..MaxXmit}

NextIo == ChRecv \/ ioc_ch_xmit

SpecIo == InitIo /\ [][NextIo]_vars

(***************************************************************************)
(* Properties of the request pool.                                         *)
(***************************************************************************)
\* The request a thread holds: the core thread between its dequeue from the free
\* queue and its enqueue, a worker between its dequeue and its enqueue.
CoreHolds ==
  IF core.pc \in {"ptx_recv", "ptx_enq", "br_copy", "br_enq"} THEN core.req ELSE NoReq
WorkerHolds(w) == IF wk[w].pc \in {"handler", "route"} THEN wk[w].req ELSE NoReq
Holds(t) == IF t = "core" THEN CoreHolds ELSE WorkerHolds(t)

Count(q, r) == Cardinality({i \in DOMAIN q : q[i] = r})
OnQueues(r) == Count(free_qhead, r) + Count(rx_qhead, r) + Count(tx_qhead, r)
Places(r) ==
  OnQueues(r) + (IF CoreHolds = r THEN 1 ELSE 0)
              + (IF WorkerHolds("rx") = r THEN 1 ELSE 0)
              + (IF WorkerHolds("tx") = r THEN 1 ELSE 0)

\* C1 (request conservation): in every reachable state each request of the pool
\* is in exactly one place among the free queue, the rx queue, the tx queue, the
\* core thread's hands, the rx worker's hands and the tx worker's hands.
C1_Conservation == \A r \in Reqs : Places(r) = 1

\* A request forwarded by the rx worker is in the tx worker's hands while the
\* core thread holds the other one.
C1_Witness ==
  /\ CoreHolds # NoReq
  /\ WorkerHolds("tx") # NoReq
  /\ pool[WorkerHolds("tx")].hops = 1

\* No two threads hold the same request, and a held request is on no queue.
C2_Exclusive ==
  /\ \A t1, t2 \in Threads : (t1 # t2 /\ Holds(t1) # NoReq) => Holds(t1) # Holds(t2)
  /\ \A t \in Threads : Holds(t) # NoReq => OnQueues(Holds(t)) = 0

\* A step that changes a request is the step of a thread that holds it: the
\* core thread in ioc_process_tx or ioc_build_request after its dequeue, a worker
\* between its dequeue and its enqueue.
C2_WritesOwned ==
  \A r \in Reqs :
    pool'[r] # pool[r] =>
      \/ /\ CoreHolds = r
         /\ core.pc \in {"ptx_recv", "br_copy"}
         /\ core'.pc # core.pc
      \/ \E w \in Workers : WorkerHolds(w) = r /\ wk'[w].pc # wk[w].pc

\* C2 (exclusive ownership): at no time do two threads hold the same request,
\* and a request is written only by the thread that holds it, between that
\* thread's dequeue and its enqueue.
C2_ExclusiveOwnership == []C2_Exclusive /\ [][C2_WritesOwned]_vars

\* The core thread fills one request while the rx handler runs on the other.
C2_Witness ==
  /\ core.pc = "br_copy"
  /\ wk["rx"].pc = "handler"
  /\ core.req # wk["rx"].req

\* The requests of a queue that carry data of one channel and went through the
\* same number of hops are queued in the order the data was read.
InOrder(q) ==
  \A i, j \in DOMAIN q :
    (/\ i < j
     /\ pool[q[i]].org[1] = pool[q[j]].org[1]
     /\ pool[q[i]].hops = pool[q[j]].hops)
    => pool[q[i]].org[2] < pool[q[j]].org[2]

\* C3 (FIFO within a channel): when no read has faulted, the data of one channel
\* waits on the rx queue and on the tx queue in the order it was read, so that
\* the worker of that queue takes it in that order.
C3_FifoWithinChannel == sent["fault"] = 0 => InOrder(rx_qhead) /\ InOrder(tx_qhead)

\* C4 (drop on exhaustion): when no read has faulted and the core thread finds
\* the free queue empty on a
\* readable native channel, the step that drops the event consumes the datum
\* that made the channel readable.
C4_DropConsumes ==
  [][(/\ sent["fault"] = 0
      /\ core.pc = "ptx_deq"
      /\ core'.pc # "ptx_deq"
      /\ SIMPLEQ_EMPTY(free_qhead)
      /\ chan_in[core.ch] # <<>>)
     => chan_in'[core.ch] = Tail(chan_in[core.ch])]_vars

(***************************************************************************)
(* Scenario S6.                                                            *)
(***************************************************************************)
\* The burst has been read to its last byte and the ring is drained.
BurstDone ==
  /\ sent[IOC_VIRTUAL_UART] = IOC_MAX_REQUESTS + 1
  /\ chan_in[IOC_VIRTUAL_UART] = <<>>
  /\ ring.head = ring.tail
  /\ core.pc = "epoll_wait"

FirstFrames == [i \in 1..IOC_MAX_REQUESTS |-> i]
IsPrefix(p, q) == Len(p) <= Len(q) /\ \A i \in DOMAIN p : p[i] = q[i]

\* Request r holds link frame k as it arrived.
HoldsFrame(r, k) ==
  /\ pool[r].buf[0] = CBC_SOF_VALUE
  /\ pool[r].buf[CBC_SRV_POS] = k
  /\ pool[r].link_len = CBC_MAX_LINK_SIZE
  /\ pool[r].srv_len = CBC_MAX_LINK_SIZE - CBC_SRV_POS

\* Request r waits where ioc_build_request enqueued it: no worker has taken it.
FromCore(r) == pool[r].hops = 0

\* While no worker has returned a request to the free queue: the frames are
\* enqueued on the rx queue in arrival order, a frame is dropped only once all
\* IOC_MAX_REQUESTS requests are in use, the requests ioc_build_request put on
\* the rx queue hold their frames unmodified and in arrival order until a worker
\* takes them; and once the burst is through, exactly the first IOC_MAX_REQUESTS
\* frames were enqueued and exactly one was dropped.
S6_Safety ==
  ~obs.ret =>
    /\ IsPrefix(obs.rxlog, FirstFrames)
    /\ obs.ndrop <= 1
    /\ obs.ndrop = 1 => obs.rxlog = FirstFrames
    /\ \A i \in DOMAIN rx_qhead :
         FromCore(rx_qhead[i]) => HoldsFrame(rx_qhead[i], pool[rx_qhead[i]].org[2])
    /\ \A i, j \in DOMAIN rx_qhead :
         (i < j /\ FromCore(rx_qhead[i]) /\ FromCore(rx_qhead[j]))
         => pool[rx_qhead[i]].buf[CBC_SRV_POS] < pool[rx_qhead[j]].buf[CBC_SRV_POS]
    /\ BurstDone => obs.rxlog = FirstFrames /\ obs.ndrop = 1

\* Every request is back on the free queue: the workers have processed all
\* frames that were enqueued.
S6_Drained == Len(free_qhead) = IOC_MAX_REQUESTS /\ obs.ret

\* C5 (pool exhaustion): when IOC_MAX_REQUESTS + 1 link frames arrive back to
\* back on the virtual UART and no worker returns a request meanwhile, exactly
\* the first IOC_MAX_REQUESTS frames are enqueued on the rx queue, in arrival
\* order and unmodified, exactly the last one is dropped, and the workers
\* eventually process every enqueued frame.
C5_PoolExhaustion == []S6_Safety /\ (BurstDone ~> S6_Drained)

\* The burst is through, one frame was dropped, no request has been returned.
C5_Witness ==
  /\ BurstDone
  /\ ~obs.ret
  /\ obs.ndrop = 1
  /\ Len(rx_qhead) = IOC_MAX_REQUESTS

(***************************************************************************)
(* Shutdown.                                                               *)
(***************************************************************************)
\* The three pthread_join calls of ioc_kill_workers have returned.
AllJoined == kpc \in {"k_destroy", "k_ret", "free", "done"}

\* C6 (shutdown liveness): once ioc_kill_workers has set closing, the core
\* thread and both workers terminate and the three joins return.
C6_ShutdownTerminates == (closing = 1) ~> AllJoined

\* Worker w begins a pthread_cond_wait in this step.
BeginsWait(w) == wk[w].pc = "locked" /\ wk'[w].pc = "wait"

\* C15 (closing re-checked before waiting): a worker never begins a wait on its
\* condition variable once closing is set and ioc_kill_workers has sent that
\* worker's shutdown signal.
C15_NoWaitWhenClosing ==
  [][\A w \in Workers : BeginsWait(w) => ~(closing = 1 /\ Synced(w))]_vars

\* Worker w tests closing in this step: it returns from pthread_cond_wait, or it
\* holds its mutex and its queue is not empty.
TestsClosing(w) ==
  /\ wk'[w].pc # wk[w].pc
  /\ \/ wk[w].pc = "wait"
     \/ wk[w].pc = "locked" /\ ~SIMPLEQ_EMPTY(qhead[w])

\* What worker w does once it has seen closing set: it goes to its exit label
\* with its mutex held, no request taken and the queues as they were; there it
\* unlocks the mutex and returns, and it never runs again.
ExitsUntouched(w) ==
  /\ (TestsClosing(w) /\ closing = 1 /\ Synced(w)) => wk'[w].pc = "exit"
  /\ (wk[w].pc # "exit" /\ wk'[w].pc = "exit") =>
       /\ TestsClosing(w) /\ closing = 1
       /\ qhead' = qhead /\ pool' = pool /\ wk'[w].req = wk[w].req
       /\ mtx'[w] = w
  /\ (wk[w].pc = "exit" /\ wk'[w].pc # "exit") =>
       /\ wk'[w].pc = "done"
       /\ mtx[w] = w /\ mtx'[w] = "none"
       /\ qhead' = qhead /\ pool' = pool /\ wk'[w].req = wk[w].req
  /\ wk[w].pc = "done" => wk'[w] = wk[w]

HeldBy(t) == {q \in DOMAIN mtx : mtx[q] = t}

\* A worker holds its own queue's mutex from the lock at the top of its loop
\* (or the return of its wait) to the unlock after the dequeue or at the exit
\* label, and holds nothing in its handler, while it routes, and once returned.
HoldsOnlyInLoopHead ==
  /\ \A q \in DOMAIN mtx : mtx[q] \in {"none"} \cup ({q} \cap Workers)
  /\ \A w \in Workers : mtx[w] = w <=> wk[w].pc \in {"locked", "exit"}

\* A step that takes a mutex is taken by a thread holding none, and a worker
\* that leaves its loop unlocks the one mutex it holds.
LocksOneAtATime ==
  \A w \in Workers :
    /\ (wk[w].pc = "route" /\ wk'[w].pc # "route") =>
         /\ HeldBy(w) = {} /\ mtx[RouteQueue(w)] = "none"
         /\ mtx' = mtx
    /\ (mtx[w] # w /\ mtx'[w] = w) => HeldBy(w) = {} /\ HeldBy(w)' = {w}
    /\ (wk[w].pc # "done" /\ wk'[w].pc = "done") =>
         /\ wk[w].pc = "exit"
         /\ HeldBy(w) = {w} /\ HeldBy(w)' = {}

\* C18 (single-lock discipline): no thread ever holds two of the three queue
\* mutexes; a worker has released its own queue's mutex before it runs its
\* handler and before it enqueues on the destination queue; every way out of a
\* worker's loop unlocks the mutex the worker holds, once.
C18_SingleLock ==
  /\ [](HoldsOnlyInLoopHead /\ \A t \in Threads \cup {"kill"} : Cardinality(HeldBy(t)) <= 1)
  /\ [][LocksOneAtATime]_vars

\* The rx worker, holding no mutex, is about to forward to the tx queue while
\* the tx worker holds the tx mutex.
C18_Witness ==
  /\ wk["rx"].pc = "route" /\ RouteQueue("rx") = CBC_QUEUE_T_TX /\ HeldBy("rx") = {}
  /\ HeldBy("tx") = {CBC_QUEUE_T_TX}

\* How many times request r is linked in the three queues.
TimesQueued(q, r) ==
  Cardinality({<<t, i>> \in (DOMAIN q) \X (1..IOC_MAX_REQUESTS) :
                 i \in DOMAIN q[t] /\ q[t][i] = r})

\* Worker w routes the request it has processed in this step.
Routes(w) == wk[w].pc = "route" /\ wk'[w].pc # "route"

\* The routing of worker w: to the head of the other worker's queue when the
\* handler left that queue's type in packet.qtype, to the tail of the free queue
\* otherwise; the other two queues are left alone.
RoutedAsDecided(w) ==
  LET r == wk[w].req
      dst == IF wk[w].qtype = Opposite(w) THEN Opposite(w) ELSE CBC_QUEUE_T_FREE
  IN  /\ qhead'[dst] = IF dst = CBC_QUEUE_T_FREE THEN qhead[dst] \o <<r>>
                                                 ELSE <<r>> \o qhead[dst]
      /\ \A q \in DOMAIN qhead \ {dst} : qhead'[q] = qhead[q]
      /\ TimesQueued(qhead, r) = 0 /\ TimesQueued(qhead', r) = 1

\* C20 (worker routing): after its handler returns, the rx worker inserts the
\* request at the head of the tx queue if the routing decision is tx and at
\* the tail of the free queue otherwise; the tx worker inserts it at the head
\* of the rx queue if the decision is rx and at the tail of the free queue
\* otherwise; each processed request is enqueued exactly once.
C20_WorkerRouting == [][\A w \in Workers : Routes(w) => RoutedAsDecided(w)]_vars

\* A request forwarded by the tx worker stands on the rx queue in front of one
\* that the core thread enqueued earlier.
C20_Witness ==
  /\ Len(rx_qhead) >= 2
  /\ pool[rx_qhead[1]].hops = 1 /\ pool[rx_qhead[2]].hops = 0

\* Request r is linked in worker w's queue.
Queued(w, r) == \E i \in DOMAIN qhead[w] : qhead[w][i] = r

\* No lost wakeup: a worker whose queue is not empty comes to dequeue a request.
QueueServed(w) == (~SIMPLEQ_EMPTY(qhead[w]) /\ closing = 0) ~> (wk[w].pc = "handler")

\* A request a worker has dequeued is forwarded or returned to the free queue.
DequeuedIsRouted(w) ==
  \A r \in Reqs :
    (wk[w].pc = "handler" /\ wk[w].req = r) ~>
      (wk[w].pc = "lock" /\ TimesQueued(qhead, r) = 1)

\* Once the core thread has exited, the requests still queued are dequeued.
DrainedAfterCoreExit(w) ==
  \A r \in Reqs : (core.pc = "exit" /\ Queued(w, r) /\ closing = 0) ~> ~Queued(w, r)

ProcessTxEndsGot == core.pc = "ptx_enq" /\ core'.pc # "ptx_enq" /\ core.count > 0
ProcessTxEndsEmpty == core.pc = "ptx_enq" /\ core'.pc # "ptx_enq" /\ core.count <= 0

\* The read of ioc_process_tx stores the frame at the service-payload offset of
\* the request the core thread holds, and nowhere else.
ReadsIntoRequest ==
  (core.pc = "ptx_recv" /\ core'.pc = "ptx_enq" /\ core'.count > 0) =>
    /\ core.ch \in NativeChs /\ core.req # NoReq /\ TimesQueued(qhead, core.req) = 0
    /\ pool'[core.req].buf[CBC_SRV_POS] = Head(chan_in[core.ch])
    /\ \A i \in DOMAIN pool[core.req].buf \ {CBC_SRV_POS} :
         pool'[core.req].buf[i] = pool[core.req].buf[i]
    /\ \A r \in Reqs \ {core.req} : pool'[r] = pool[r]

\* The request is stamped and goes to the tail of the tx queue.
StampedToTxTail ==
  ProcessTxEndsGot =>
    /\ pool[core.req].srv_len = core.count /\ pool[core.req].link_len = 0
    /\ pool[core.req].rtype = CBC_REQ_T_PROT /\ pool[core.req].id = core.ch
    /\ tx_qhead' = tx_qhead \o <<core.req>>
    /\ rx_qhead' = rx_qhead /\ free_qhead' = free_qhead

\* Request r carries a native frame that no worker has handled yet.
FreshNative(r) == pool[r].org[1] \in NativeChs /\ pool[r].hops = 0

\* The tx worker takes native frames in the order they were read: the one it
\* dequeues was read before every one that still waits.
TakenInReadOrder ==
  (wk["tx"].pc = "locked" /\ wk'["tx"].pc = "handler" /\ FreshNative(wk'["tx"].req)) =>
    /\ wk'["tx"].req = tx_qhead[1]
    /\ \A i \in DOMAIN tx_qhead' :
         FreshNative(tx_qhead'[i]) =>
           pool[tx_qhead'[i]].org[2] > pool[wk'["tx"].req].org[2]

\* C21 (native-channel ingress): the core thread reads a ready native channel
\* into the free request at the service-payload offset; when bytes were read
\* the request gets srv_len = bytes read, link_len = 0, the framed-protocol kind
\* and the channel id and is appended to the tail of the tx queue, never to the
\* rx queue; native frames reach the tx worker in the order they were read.
C21_NativeIngress == [][ReadsIntoRequest /\ StampedToTxTail /\ TakenInReadOrder]_vars

\* Two native frames wait on the tx queue in the order they were read.
C21_Witness ==
  /\ Len(tx_qhead) = 2
  /\ \A i \in DOMAIN tx_qhead : FreshNative(tx_qhead[i]) /\ pool[tx_qhead[i]].org[2] = i

\* C22 (failed or empty native read recycles the request): when the read of
\* ioc_process_tx fails or returns zero bytes, the request the core thread took
\* goes back to the free queue untouched, nothing is enqueued on rx or tx, and
\* the free queue holds what it held before the event.
C22_FailedReadRecycles ==
  /\ [](core.pc \in {"ptx_recv", "ptx_enq"} =>
          core.req # NoReq /\ TimesQueued(qhead, core.req) = 0)
  /\ [][(core.pc = "ptx_recv" /\ core'.pc = "ptx_enq" /\ core'.count <= 0) =>
          pool' = pool /\ qhead' = qhead /\ core'.req = core.req]_vars
  /\ [][ProcessTxEndsEmpty =>
          /\ free_qhead' = free_qhead \o <<core.req>>
          /\ rx_qhead' = rx_qhead /\ tx_qhead' = tx_qhead
          /\ pool' = pool]_vars

\* A read on a native channel has failed with a frame pending, and the core
\* thread holds the request it took.
C22_Witness ==
  /\ core.pc = "ptx_enq" /\ core.count <= 0 /\ core.req # NoReq
  /\ sent["fault"] = 1 /\ chan_in[core.ch] # <<>>

(***************************************************************************)
(* The core thread's handling of the virtual UART (ioc_process_rx,         *)
(* ioc_build_request).                                                     *)
(***************************************************************************)
\* ioc_process_rx returns from its read in this step, and the read took one
\* byte off the channel.
ProcessRxReads == core.pc = "prx_recv" /\ core'.pc # "prx_recv"
ReadTookByte ==
  /\ chan_in[core.ch] # <<>>
  /\ chan_in'[core.ch] = Tail(chan_in[core.ch])

\* C23 (virtual UART ingress feeds only bytes actually read): on a readiness
\* event of the virtual UART the core thread feeds the ring the one byte it
\* read; when the read fails or returns zero bytes the ring is left as it was
\* and no frame is unpacked.
C23_OnlyBytesRead ==
  [][ProcessRxReads =>
       IF ReadTookByte
       THEN ring' = cbc_copy_to_ring(Head(chan_in[core.ch]), ring).ring
       ELSE ring' = ring /\ core'.pc # "unpack"]_vars

\* The core thread takes a step of ioc_build_request with a request in hand.
InBuildRequest == core.pc \in {"br_deq", "br_copy", "br_enq"} /\ core' # core

\* The copy loop and the two length fields.
FrameCopied ==
  (core.pc = "br_copy" /\ core'.pc = "br_enq") =>
    /\ core.req # NoReq /\ TimesQueued(qhead, core.req) = 0
    /\ \A i \in 0..(CBC_MAX_LINK_SIZE - 1) :
         pool'[core.req].buf[i] = ring.buf[(ring.head + i) % CBC_RING_BUFFER_SIZE]
    /\ pool'[core.req].link_len = CBC_MAX_LINK_SIZE
    /\ pool'[core.req].srv_len = CBC_MAX_LINK_SIZE - CBC_SRV_POS
    /\ \A r \in Reqs \ {core.req} : pool'[r] = pool[r]

\* The enqueue at the tail of the rx queue.
BuiltToRxTail ==
  (core.pc = "br_enq" /\ core'.pc # "br_enq") =>
    /\ rx_qhead' = rx_qhead \o <<core.req>>
    /\ tx_qhead' = tx_qhead /\ free_qhead' = free_qhead
    /\ pool' = pool

\* C24 (ioc_build_request copies a frame out of the ring without changing it):
\* with a free request in hand, buf[i] of the request is the ring's byte at
\* (head + i) mod CBC_RING_BUFFER_SIZE for every i below link_len, link_len and
\* srv_len are stored, the request is appended to the tail of the rx queue, and
\* the ring's head, tail and contents stay as they were.
C24_BuildRequestCopies ==
  [][(InBuildRequest => ring' = ring) /\ FrameCopied /\ BuiltToRxTail]_vars

\* A request has been built from a frame that wraps past the end of the ring.
C24_Witness ==
  /\ core.pc = "br_enq"
  /\ ring.head = CBC_RING_BUFFER_SIZE - 1
  /\ pool[core.req].buf[0] = CBC_SOF_VALUE /\ pool[core.req].buf[CBC_SRV_POS] \in Payloads

(***************************************************************************)
(* The core thread's loop (ioc_core_thread).                               *)
(***************************************************************************)
\* A step of the core thread that touches nothing but the thread's own position.
CoreOnlyMoves ==
  /\ qhead' = qhead /\ pool' = pool /\ ring' = ring /\ chan_in' = chan_in
  /\ mtx' = mtx /\ woken' = woken /\ wk' = wk /\ closing' = closing
  /\ core'.req = core.req /\ core'.reg = core.reg

\* An interrupted wait yields no event, and the thread waits again.
EintrWaitsAgain ==
  /\ (core.pc = "epoll_wait" /\ core'.pc = "eintr") => core'.evl = <<>> /\ CoreOnlyMoves
  /\ (core.pc = "eintr" /\ core' # core) =>
       core'.pc = "epoll_wait" /\ core'.evl = <<>> /\ CoreOnlyMoves

\* The thread exits from its wait only, and leaves the workers as they are.
ExitsFromWait ==
  (core.pc # "exit" /\ core'.pc = "exit") => core.pc = "epoll_wait" /\ CoreOnlyMoves

\* Once the thread has exited it reads no channel and enqueues no request: the
\* pending input only grows, and the queues change by the workers' steps only.
NothingAfterExit ==
  core.pc = "exit" =>
    /\ core' = core /\ ring' = ring
    /\ \A c \in DOMAIN chan_in :
         /\ Len(chan_in'[c]) >= Len(chan_in[c])
         /\ SubSeq(chan_in'[c], 1, Len(chan_in[c])) = chan_in[c]
    /\ qhead' # qhead => \E w \in Workers : wk'[w] # wk[w]

\* C25 (core-thread wait failures): an interrupted readiness wait dispatches no
\* event and the core thread waits again; any other failure of the wait makes
\* the core thread exit, after which it reads no channel and enqueues no
\* request, while the rx and tx workers keep running.
C25_WaitFailures == [][EintrWaitsAgain /\ ExitsFromWait /\ NothingAfterExit]_vars

\* The core thread has exited with input pending on the native channel, and the
\* tx worker is running its handler on a request.
C25_Witness ==
  /\ core.pc = "exit" /\ closing = 0
  /\ chan_in[IOC_NATIVE_LFCC] # <<>>
  /\ wk["tx"].pc = "handler"

\* The channels ioc_ch_recv and ioc_ch_deinit treat as open: fd >= 0.
OpenChannels == {c \in ChIds : fd[c] >= 0}

\* C26: once the registration loop of the core thread is over, the channels
\* registered for read events are exactly the open ones, the one holding
\* descriptor 0 included, and no channel with an invalid fd is registered.
C26_EveryOpenChannelMonitored ==
  core.pc # "epoll_add" => core.reg = OpenChannels

\* The steps of ioc_init that initialise something or start a thread.
FreeQueueInit == ini.sync[CBC_QUEUE_T_FREE] = "uninit" /\ ini'.sync[CBC_QUEUE_T_FREE] = "init"
ChannelOpens == \E c \in ChIds : fd[c] < 0 /\ fd'[c] >= 0
WhitelistsInit == wl.pc = "init" /\ wl'.pc = "idle"
MembersInit ==
  \E q \in {CBC_QUEUE_T_RX, CBC_QUEUE_T_TX} : ini.sync[q] = "uninit" /\ ini'.sync[q] = "init"
Starts(t) ==
  IF t = "core" THEN core.pc = "none" /\ core'.pc = "epoll_add"
  ELSE wk[t].pc = "none" /\ wk'[t].pc = "lock"

\* What ioc_init has initialised so far.
ChTableDone ==
  /\ ini.i > Len(ioc_ch_tbl)
  /\ fd[IOC_NATIVE_LFCC] >= 0
  /\ fd[IOC_VIRTUAL_UART] >= 0
WlistsDone == wl.pc = "idle" /\ wl.node = InitWhitelists
MembersUninit ==
  ini.sync[CBC_QUEUE_T_RX] = "uninit" /\ ini.sync[CBC_QUEUE_T_TX] = "uninit"
AllInitialised ==
  /\ epfd # IOC_INIT_FD
  /\ ChTableDone
  /\ WlistsDone
  /\ \A o \in SyncObjs : ini.sync[o] = "init"
Started(t) == ThreadPc(t) # "none"

\* No thread starts before everything is initialised; rx, then tx, then core.
ThreadsStartLast ==
  /\ Starts("rx") => AllInitialised /\ ~Started("tx") /\ ~Started("core")
  /\ Starts("tx") => AllInitialised /\ Started("rx") /\ ~Started("core")
  /\ Starts("core") => AllInitialised /\ Started("rx") /\ Started("tx")

\* C27, amended (startup order): ioc_init initialises the request pool and the
\* free queue with its mutex, then the channel table, then the whitelists,
\* then the rx and tx queues with their mutexes and condition variables, then
\* starts the rx worker, the tx worker and the core thread in that order; no
\* thread is started before all of these are initialised.
C27_StartupOrder ==
  [][/\ FreeQueueInit =>
          /\ ini.i = 1 /\ \A c \in ChIds : fd[c] < 0
          /\ wl.pc = "init" /\ MembersUninit
     /\ ChannelOpens =>
          /\ ini.sync[CBC_QUEUE_T_FREE] = "init"
          /\ wl.pc = "init" /\ MembersUninit
     /\ WhitelistsInit =>
          /\ ini.sync[CBC_QUEUE_T_FREE] = "init" /\ ChTableDone
          /\ MembersUninit
     /\ MembersInit =>
          /\ ini.sync[CBC_QUEUE_T_FREE] = "init" /\ ChTableDone
          /\ WlistsDone
     /\ ThreadsStartLast]_vars

\* ioc_init returned the device: everything is initialised and the three
\* threads have been started.
C27_Witness ==
  /\ ini.pc = "returned"
  /\ ini.ret = "ioc"
  /\ AllInitialised
  /\ \A t \in Threads : Started(t)

\* C27 as stated: the channel table is initialised first, then the pool and
\* the queues with their mutexes and condition variables, then the
\* whitelists, then the rx worker, the tx worker and the core thread start.
C27_ChannelTableFirst ==
  [][/\ ChannelOpens =>
          /\ \A o \in SyncObjs : ini.sync[o] = "uninit"
          /\ wl.pc = "init"
     /\ (FreeQueueInit \/ MembersInit) => ChTableDone /\ wl.pc = "init"
     /\ WhitelistsInit => ChTableDone /\ \A o \in SyncObjs : ini.sync[o] = "init"
     /\ ThreadsStartLast]_vars

\* C28 (lifetime of the mutexes and condition variables): no mutex or
\* condition variable is locked or signalled after it was destroyed, none is
\* destroyed twice, and once a failed ioc_init has returned or ioc_deinit is
\* over, none that was initialised is left undestroyed.
C28_SyncObjectLifetime ==
  /\ ini.ub \cap {"use_destroyed", "double_destroy"} = {}
  /\ (ini.pc = "returned" /\ ini.ret = "NULL") => \A o \in SyncObjs : ini.sync[o] # "init"
  /\ kpc = "done" => \A o \in SyncObjs : ini.sync[o] = "destroyed"

\* The handler of worker w is entered with the routing decision reset to free.
HandlerStartsFree(w) == wk[w].pc = "handler" => wk[w].qtype = CBC_QUEUE_T_FREE

\* A routing step of worker w leaves w's own queue alone, and sends the request
\* to the tail of the free queue unless the decision names the other queue.
NeverFeedsOwnQueue(w) ==
  Routes(w) =>
    /\ qhead'[w] = qhead[w]
    /\ wk[w].qtype # Opposite(w) =>
         qhead'[CBC_QUEUE_T_FREE] = Append(qhead[CBC_QUEUE_T_FREE], wk[w].req)

\* C29 (default routing is recycle): packet.qtype is free whenever a handler is
\* entered, whatever the previous request left in it; and whatever the handler
\* sets, the rx worker never enqueues onto the rx queue and the tx worker never
\* onto the tx queue: a self-directed decision sends the request to the tail
\* of the free queue.
C29_DefaultRecycle ==
  /\ [](\A w \in Workers : HandlerStartsFree(w))
  /\ [][\A w \in Workers : NeverFeedsOwnQueue(w)]_vars

\* The rx worker has forwarded one request to the tx queue, and is about to
\* route the next one, for which the handler left the decision rx.
C29_Witness ==
  /\ wk["rx"].pc = "route"
  /\ wk["rx"].qtype = CBC_QUEUE_T_RX
  /\ \E r \in Reqs : r # wk["rx"].req /\ pool[r].hops = 1

\* The steps of ioc_deinit, in the order the code takes them.
DeinitOrder ==
  <<"idle", "k_close", "k_join_core", "k_sig_rx", "k_join_rx", "k_sig_tx", "k_join_tx",
    "k_destroy", "k_ret", "free", "done">>

\* How many steps of ioc_deinit have been taken.
DeinitStage == CHOOSE n \in 1..Len(DeinitOrder) : DeinitOrder[n] = kpc

ThreadReturned(t) == IF t = "core" THEN core.pc = "exit" ELSE wk[t].pc = "done"
SyncDestroyed == \E o \in SyncObjs : ini.sync[o] = "destroyed"
ChannelsClosed == \A c \in ChIds : fd[c] < 0

\* What has been done after each number of steps of ioc_deinit.
DeinitStageDone ==
  /\ closing = 1 <=> DeinitStage >= 2
  /\ epfd = IOC_INIT_FD <=> DeinitStage >= 3
  /\ DeinitStage >= 4 => ThreadReturned("core")
  /\ DeinitStage >= 6 => ThreadReturned("rx")
  /\ DeinitStage >= 8 => ThreadReturned("tx")
  /\ SyncDestroyed <=> DeinitStage >= 9
  /\ ChannelsClosed <=> DeinitStage >= 10
  /\ ini.ioc = "freed" <=> DeinitStage >= 11

\* ioc_deinit goes from one step to the next, and the signal of a worker's
\* condition variable is sent in the step before that worker's join.
DeinitStepsInOrder ==
  /\ kpc' # kpc => kpc' = DeinitOrder[DeinitStage + 1]
  /\ \A w \in Workers :
       (woken'[w] /\ ~woken[w] /\ closing = 1 /\ wk' = wk /\ qhead' = qhead) =>
         /\ kpc = (IF w = "rx" THEN "k_sig_rx" ELSE "k_sig_tx")
         /\ kpc' = (IF w = "rx" THEN "k_join_rx" ELSE "k_join_tx")

\* C17 (shutdown ordering): ioc_deinit sets closing, closes the multiplexer fd,
\* joins the core thread, signals the rx condition variable, joins the rx
\* worker, signals the tx condition variable, joins the tx worker, destroys the
\* mutexes and condition variables, closes the channel fds and frees the pool
\* and tables, in this order; no channel fd is closed and no mutex or condition
\* variable is destroyed while one of the three threads still runs.
C17_ShutdownOrder ==
  /\ [](kpc \in { DeinitOrder[n] : n \in 1..Len(DeinitOrder) } /\ DeinitStageDone)
  /\ []((SyncDestroyed \/ ChannelsClosed) => \A t \in Threads : ThreadReturned(t))
  /\ [][DeinitStepsInOrder]_vars

\* ioc_deinit has returned.
C17_Witness == kpc = "done" /\ ChannelsClosed /\ SyncDestroyed /\ ini.ioc = "freed"

\* C17 as stated: the channel fds are closed before the mutexes and condition
\* variables are destroyed.
C17_FdsClosedBeforeDestroy == SyncDestroyed => ChannelsClosed

(***************************************************************************)
(* ioc_init.                                                               *)
(***************************************************************************)
NoSideEffect ==
  /\ ini.ioc = "none"
  /\ \A c \in ChIds : fd[c] = IOC_INIT_FD
  /\ ~ini.symlink
  /\ epfd = IOC_INIT_FD
  /\ \A t \in Threads : ThreadPc(t) = "none"

\* C8 (pre-checks before side effects): when the platform sentinel is absent or
\* the boot reason is 0, ioc_init goes from its start to its ioc_err label and
\* returns NULL, and at no time is the device allocated, a channel open, the
\* virtual UART symlink created, the multiplexer created or a thread started.
C8_PreChecksFirst ==
  (~ini.supported \/ ini.boot_reason = 0) =>
    /\ NoSideEffect
    /\ ini.pc \in {"start", "ioc_err", "returned"}
    /\ ini.pc = "returned" => ini.ret = "NULL"

\* ioc_init has returned NULL on a supported platform with boot reason 0.
C8_Witness ==
  /\ ini.supported
  /\ ini.boot_reason = 0
  /\ ini.pc = "returned"
  /\ ini.ret = "NULL"

Critical == {IOC_NATIVE_LFCC, IOC_VIRTUAL_UART}
AllRunning == \A t \in Threads : ThreadPc(t) \notin {"none", "exit", "done", "dead"}

\* C9 (critical and optional channels): when the open of the lifecycle channel
\* or of the virtual UART fails, ioc_init leaves ioc_ch_init for its chl_err
\* label, starts no thread, and returns NULL with every channel closed; when the
\* open of another channel fails, that channel keeps an invalid fd and
\* ioc_ch_init goes on (chl_err is reached from ioc_ch_init only by a failure
\* of a critical channel); and while the three threads run, the lifecycle
\* channel and the virtual UART have valid fds.
C9_CriticalChannels ==
  /\ ini.failed \cap Critical # {} =>
       /\ \A t \in Threads : ThreadPc(t) = "none"
       /\ ini.pc \in {"chl_err", "alloc_err", "ioc_err", "returned"}
       /\ ini.pc = "returned" => ini.ret = "NULL" /\ \A c \in ChIds : fd[c] < 0
  /\ \A c \in ini.failed \ Critical : fd[c] < 0
  /\ ini.pc = "chl_err" => ini.failed \cap Critical # {}
  /\ AllRunning => fd[IOC_NATIVE_LFCC] >= 0 /\ fd[IOC_VIRTUAL_UART] >= 0

\* ioc_init returned the device and the three threads run although the open of
\* an optional channel failed.
C9_Witness ==
  /\ ini.ret = "ioc"
  /\ ini.failed # {}
  /\ AllRunning

\* C10 (thread-creation failure): ioc_init and the ioc_kill_workers it calls
\* never join a thread that was not created.
C10_JoinsOnlyCreated == "join_uncreated" \notin ini.ub

\* No step of ioc_kill_workers, ioc_ch_deinit or the frees is under way or done
\* on behalf of ioc_deinit: kpc is where ioc_init left it.
NoDeinitWork == kpc \in {"idle", "k_ret", "crashed"}

\* A call of ioc_deinit with a null handle changes nothing of the device.
NullCallStep ==
  ini'.ncall # ini.ncall =>
    /\ fd' = fd /\ epfd' = epfd /\ closing' = closing
    /\ mtx' = mtx /\ woken' = woken /\ ini'.sync = ini.sync
    /\ core' = core /\ wk' = wk /\ kpc' = kpc
    /\ qhead' = qhead /\ pool' = pool /\ ini'.ioc = ini.ioc /\ ini'.ub = ini.ub

\* C11 (null handle): ioc_deinit with a null handle changes no channel fd,
\* touches no mutex, condition variable or thread and returns; after an
\* ioc_init that returned NULL no teardown step is ever taken by ioc_deinit, and
\* after a completed ioc_deinit a further call with a null handle changes nothing.
C11_NullDeinitNoOp ==
  /\ []((ini.pc = "returned" /\ ini.ret = "NULL") => NoDeinitWork)
  /\ [][NullCallStep]_vars

\* ioc_deinit has been called with a null handle twice after a completed
\* ioc_deinit of the device.
C11_Witness == ini.ncall = 2 /\ kpc = "done" /\ ini.ret = "ioc"

\* ioc_deinit has been called with a null handle after a failed ioc_init.
C11_WitnessFailedInit == ini.ncall = 1 /\ ini.ret = "NULL" /\ kpc = "idle"

(***************************************************************************)
(* ioc_ch_recv and ioc_ch_xmit.                                            *)
(***************************************************************************)
\* The arguments of the call are ones the functions refuse.
IoArgsInvalid == fd[io.id] < 0 \/ io.buf = "NULL" \/ io.size = 0
InXmit == io.op = "xmit" /\ io.pc \in {"loop", "ret"} /\ ~IoArgsInvalid

\* C12 (whole buffer across short writes): in a call of ioc_ch_xmit with a valid
\* fd, a buffer and size > 0, the bytes handed to the fd are at all times the
\* prefix buf[0..count) in order, count never exceeds size, the call returns
\* count, and count = size when no write failed.
C12_XmitWritesAll ==
  InXmit =>
    /\ io.out = SubSeq(XmitBuf, 1, io.count)
    /\ io.count <= io.size
    /\ io.pc = "ret" => io.ret = io.count /\ (io.err = {} => io.count = io.size)

\* The whole buffer went out in more than one write and none failed.
C12_Witness ==
  InXmit /\ io.pc = "ret" /\ io.size = MaxXmit /\ io.ret = MaxXmit /\ io.nio > 1 /\ io.err = {}

\* C13 (would-block is retried): a call of ioc_ch_xmit in which no write failed
\* but with EAGAIN returns with the whole buffer written.
C13_EagainRetried ==
  (InXmit /\ io.pc = "ret" /\ io.err \subseteq {"EAGAIN"}) =>
    io.out = SubSeq(XmitBuf, 1, io.size)

\* C14 (invalid arguments): when the channel's fd is invalid, the buffer is null
\* or the size is 0, ioc_ch_recv and ioc_ch_xmit make no read and no write and
\* return -1.
C14_InvalidArgsFail ==
  (io.pc # "idle" /\ IoArgsInvalid) =>
    /\ io.nio = 0
    /\ io.out = <<>>
    /\ io.pc \in {"call", "ret"}
    /\ io.pc = "ret" => io.ret = -1

\* ioc_ch_xmit returned -1 for size 0 on an open channel with a buffer.
C14_Witness ==
  /\ io.op = "xmit" /\ io.pc = "ret" /\ io.ret = -1
  /\ fd[io.id] >= 0 /\ io.buf # "NULL" /\ io.size = 0

\* ioc_ch_recv returned -1 on a channel ioc_ch_deinit has closed.
C14_WitnessClosed ==
  /\ io.op = "recv" /\ io.pc = "ret" /\ io.ret = -1
  /\ fd = ClosedFdTable /\ io.id = IOC_NATIVE_LFCC /\ io.buf # "NULL" /\ io.size > 0

(***************************************************************************)
(* The whitelist filter.                                                   *)
(***************************************************************************)
\* The signal whitelist and signal table configured for a direction.
WhitelistOf(dir) == IF dir = "rx" THEN wlist_rx_signal_table ELSE wlist_tx_signal_table
SignalTableOf(dir) == IF dir = "rx" THEN cbc_rx_signal_table ELSE cbc_tx_signal_table
Whitelisted(dir, id) == \E k \in DOMAIN WhitelistOf(dir) : WhitelistOf(dir)[k] = id
ActiveIn(dir, id) ==
  \E j \in DOMAIN SignalTableOf(dir) :
    SignalTableOf(dir)[j][1] = id /\ SignalTableOf(dir)[j][3] = CBC_ACTIVE
Emitted(id) == \E k \in DOMAIN wl.out : wl.out[k] = id

\* C7 (whitelist containment): every signal id a direction's handler emits is
\* in that direction's signal whitelist and is marked active in that direction's
\* signal table, and no id of the input frame that is not whitelisted is emitted.
C7_WhitelistContainment ==
  wl.pc = "done" =>
    /\ \A k \in DOMAIN wl.out :
         Whitelisted(wl.dir, wl.out[k]) /\ ActiveIn(wl.dir, wl.out[k])
    /\ \A k \in DOMAIN wl.frame :
         ~Whitelisted(wl.dir, wl.frame[k]) => ~Emitted(wl.frame[k])

\* The tx handler has filtered a frame with a whitelisted signal and one that
\* is not: only the first is emitted.
C7_Witness ==
  /\ wl.pc = "done"
  /\ wl.dir = "tx"
  /\ wl.frame = <<"CBC_SIG_ID_VSWA", "CBC_SIG_ID_VSPD">>
  /\ wl.out = <<"CBC_SIG_ID_VSPD">>

====
